---- MODULE Spec2Model ----
(***************************************************************************)
(* Model of the Git Log Explorer extension's GitService (gitService.ts):   *)
(*   - the ref resolution at the head of GitService.getCommits, one step   *)
(*     per awaited git call, with the repository as the environment;       *)
(*   - the divergence computation of GitService.getBranchDifference.       *)
(***************************************************************************)
EXTENDS Integers, Sequences, FiniteSets, TLC

\* ------------------------------------------------------------------ bounds
\* longest raw output of `git rev-list --count` that the model enumerates
MaxOutLen == 2
\* longest commit list returned by the commit listing
MaxCommits == 2

\* ------------------------------------------------------- input universes
Names == {"main", "dev"}
CommitIds == {"c1", "c2"}
NoRef == "none"
OutChars == {"0", "1", "\n"}
RevListOutputs == UNION {[1..n -> OutChars] : n \in 0..MaxOutLen}
MergeBaseOutputs == {<<"c", "0", "\n">>}

VARIABLES
    git,            \* GitService.git is non-null
    repoLocal,      \* commit the local ref <name> points to, or NoRef
    repoRemote,     \* commit origin/<name> points to, or NoRef
    pc,             \* position of getCommits
    branchOrTag,    \* argument of getCommits
    refToQuery,
    useRemote,
    localCommit,
    remoteCommit,
    mergeBase,
    localAhead,
    remoteAhead,
    calls,          \* git calls made so far, with their outcome
    thrown,         \* what made getCommits reject: "none", "init", "hook", "log"
    listing,        \* the commits getCommits resolved with
    filterCall,     \* arguments and outcome of the latest filterCommits call
    dpc,            \* position of getBranchDifference
    fromCommits,    \* what getCommits(fromBranch, 200) returned
    toCommits,      \* what getCommits(toBranch, 200) returned
    difference,     \* the resolved value of getBranchDifference
    previous,       \* lists and result of the request before this one, if any
    comparisonContent,  \* lines of the document showBranchComparisonInEditor opens
    provider,       \* which source of GitLogWebviewProvider runs
    lastCompareFrom,
    lastCompareTo,
    cpc,            \* position of compareBranches
    compareArgs,    \* arguments of the compareBranches request
    compareLogs,    \* what the two getCommits calls of compareBranches returned
    finalFromCommits,   \* the lists handed to the comparison view
    finalToCommits,
    currentBranch,      \* fields of GitLogWebviewProvider
    branches,
    shownCommits,       \* the field `commits`
    shownAuthorFilter,  \* the field `authorFilter`
    messageFilter,
    selectedCommits,
    branchSearchQuery,
    requests,       \* the messages onDidReceiveMessage has dispatched so far
    serviceCalls,   \* GitService calls of the latest request, with their outcome
    posted,         \* messages the latest request sent to the panel
    notified,       \* vscode.window messages the latest request showed
    before,         \* the fields as they were when the latest request arrived
    userInputCallbacks, \* panel script: callback id -> pending callback
    now,            \* panel script: Date.now()
    scriptLog,      \* panel script: messages posted to and received from the host
    answered,       \* positions of scriptLog whose requestUserInput the host answered
    toScript,       \* userInputResponse messages on their way to the panel
    selectedDeleteBranches, \* panel script: branches ticked in the delete dialog
    currentData,    \* panel script: the data of the latest 'update' message
    appActions,     \* panel script: the data-action controls renderApp put in #app
    invoked,        \* panel script: the callbacks called so far, and for which response
    isCompareMode,  \* fields of GitLogWebviewProvider
    compareInfo,
    loading         \* loadCommits calls whose git call has not settled yet

resolveVars == <<git, repoLocal, repoRemote, pc, branchOrTag, refToQuery, useRemote,
                 localCommit, remoteCommit, mergeBase, localAhead, remoteAhead,
                 calls, thrown, listing, filterCall>>

divergenceVars == <<dpc, fromCommits, toCommits, difference, previous, comparisonContent>>

compareVars == <<provider, lastCompareFrom, lastCompareTo, cpc, compareArgs, compareLogs,
                 finalFromCommits, finalToCommits>>

viewVars == <<currentBranch, branches, shownCommits, shownAuthorFilter, messageFilter,
              selectedCommits, branchSearchQuery, requests, serviceCalls, posted,
              notified, before>>

scriptVars == <<userInputCallbacks, now, scriptLog, answered, toScript,
                selectedDeleteBranches, currentData, appActions, invoked>>

modeVars == <<isCompareMode, compareInfo, loading>>

vars == <<resolveVars, divergenceVars, compareVars, viewVars, scriptVars, modeVars>>

\* private compareInfo: { from: string, to: string } = { from: '', to: '' }
NoCompareInfo == [from |-> "", to |-> ""]

\* ---------------------------------------------------------- JS primitives
IsWhite(c) == c \in {"\n", " ", "\t", "\r"}

RECURSIVE TrimStart(_)
TrimStart(s) ==
    IF s = <<>> THEN <<>>
    ELSE IF IsWhite(Head(s)) THEN TrimStart(Tail(s)) ELSE s

RECURSIVE TrimEnd(_)
TrimEnd(s) ==
    IF s = <<>> THEN <<>>
    ELSE IF IsWhite(s[Len(s)]) THEN TrimEnd(SubSeq(s, 1, Len(s) - 1)) ELSE s

\* String.prototype.trim
Trim(s) == TrimEnd(TrimStart(s))

IsDigit(c) == c \in {"0", "1", "2", "3", "4", "5", "6", "7", "8", "9"}

DigitVal(c) ==
    CASE c = "0" -> 0 [] c = "1" -> 1 [] c = "2" -> 2 [] c = "3" -> 3 [] c = "4" -> 4
      [] c = "5" -> 5 [] c = "6" -> 6 [] c = "7" -> 7 [] c = "8" -> 8 [] c = "9" -> 9

RECURSIVE DigitPrefix(_)
DigitPrefix(s) ==
    IF s = <<>> \/ ~IsDigit(Head(s)) THEN <<>>
    ELSE <<Head(s)>> \o DigitPrefix(Tail(s))

RECURSIVE DigitsValue(_)
DigitsValue(d) ==
    IF d = <<>> THEN 0
    ELSE 10 * DigitsValue(SubSeq(d, 1, Len(d) - 1)) + DigitVal(d[Len(d)])

\* parseInt: leading white space skipped, the longest decimal prefix read,
\* NaN when there is none
ParseInt(s) ==
    LET d == DigitPrefix(TrimStart(s))
    IN  IF d = <<>> THEN [nan |-> TRUE, val |-> 0]
        ELSE [nan |-> FALSE, val |-> DigitsValue(d)]

\* `x || 0` on a number: NaN and 0 are falsy
OrZero(n) == IF n.nan \/ n.val = 0 THEN 0 ELSE n.val

\* parseInt(out.trim()) || 0
AheadCount(out) == OrZero(ParseInt(Trim(out)))

RECURSIVE Str(_)
Str(s) == IF s = <<>> THEN "" ELSE Head(s) \o Str(Tail(s))

\* ------------------------------------------------------- ref resolution
RemoteRef(name) == "origin/" \o name

Call(cmd, arg, ok) == [cmd |-> cmd, arg |-> arg, ok |-> ok]

\* ------------------------------------------------------- commit listing
\* a commit as simple-git's log() hands it over
Raw(hash, message, name, email) ==
    [hash |-> hash, date |-> "2024-01-01", message |-> message,
     author_name |-> name, author_email |-> email]

RawAl(hash) == Raw(hash, <<"f", "i", "x">>, <<"A", "l">>, <<"a", "@", "x">>)

RawBo(hash) == Raw(hash, <<"D", "o", "c">>, <<"b", "o">>, <<"L", "@", "y">>)

\* what `git log <commit>` lists, newest first: c2 is a child of c1
CommitLog == [c \in CommitIds |-> IF c = "c1" THEN <<RawAl("h1")>>
                                   ELSE <<RawBo("h2"), RawAl("h1")>>]

\* what `git log <ref>` lists in the repository at hand; a name that is
\* neither a local nor a remote branch can still be a tag
RefLog(ref) ==
    LET commit == IF ref = RemoteRef(branchOrTag) THEN repoRemote ELSE repoLocal
    IN  IF commit = NoRef THEN <<RawBo("h3")>> ELSE CommitLog[commit]

\* the first n entries: --max-count=n
Take(log, n) == SubSeq(log, 1, IF Len(log) < n THEN Len(log) ELSE n)

\* the maxCount of a call that passes none (50 in the code)
DefaultMaxCount == 2

\* logResult.all.map(...) of getCommits
GitCommits(log) ==
    [i \in DOMAIN log |->
        [hash |-> log[i].hash, date |-> log[i].date, message |-> log[i].message,
         author |-> log[i].author_name \o <<" ", "<">> \o log[i].author_email \o <<">">>,
         email |-> log[i].author_email]]

NoFilterCall ==
    [ref |-> "", authorFilter |-> <<>>, messageFilter |-> <<>>, maxCount |-> 0,
     log |-> <<>>, outcome |-> "none", commits |-> <<>>]

\* the two comparisons in the other order
AheadChoice_localFirst(name, localAheadCount, remoteAheadCount) ==
    IF localAheadCount > 0
    THEN [refToQuery |-> name, useRemote |-> FALSE, pc |-> "L310"]
    ELSE [refToQuery |-> RemoteRef(name), useRemote |-> TRUE, pc |-> "L310"]

\* a final else that takes the remote ref and forgets the flag
AheadChoice_flagless(name, localAheadCount, remoteAheadCount) ==
    IF remoteAheadCount > 0
    THEN [refToQuery |-> RemoteRef(name), useRemote |-> TRUE, pc |-> "L310"]
    ELSE IF localAheadCount > 0
    THEN [refToQuery |-> name, useRemote |-> FALSE, pc |-> "L310"]
    ELSE [refToQuery |-> RemoteRef(name), useRemote |-> FALSE, pc |-> "L310"]

\* outcome of the if/else-if/else on the two counts
AheadChoice(name, localAheadCount, remoteAheadCount) ==
    IF remoteAheadCount > 0
    THEN [refToQuery |-> RemoteRef(name), useRemote |-> TRUE, pc |-> "L310"]
    ELSE IF localAheadCount > 0
    THEN [refToQuery |-> name, useRemote |-> FALSE, pc |-> "L310"]
    ELSE [refToQuery |-> RemoteRef(name), useRemote |-> TRUE, pc |-> "L310"]

\* a compare catch that keeps the local name
CompareErrorChoice_local(name) ==
    [refToQuery |-> name, useRemote |-> FALSE, pc |-> "L310"]

\* no compare catch: the failure reaches the outer catch, which rethrows
CompareErrorChoice_rethrow(name) ==
    [refToQuery |-> name, useRemote |-> FALSE, pc |-> "failed"]

\* catch (compareError)
CompareErrorChoice(name) ==
    [refToQuery |-> RemoteRef(name), useRemote |-> TRUE, pc |-> "L310"]

\* equal commits keep the local name
SameCommitChoice_local(name) ==
    [refToQuery |-> name, useRemote |-> FALSE, pc |-> "L310"]

\* else branch of `localCommit !== remoteCommit`
SameCommitChoice(name) ==
    [refToQuery |-> RemoteRef(name), useRemote |-> TRUE, pc |-> "L310"]

\* a local catch that keeps the local name
LocalErrorChoice_local(name) ==
    [refToQuery |-> name, useRemote |-> FALSE, pc |-> "L310"]

\* catch (localError)
LocalErrorChoice(name) ==
    [refToQuery |-> RemoteRef(name), useRemote |-> TRUE, pc |-> "L310"]

\* a remote catch that falls to the remote ref when the local name fails too
RemoteErrorChoice_remote(name, localOk) ==
    IF localOk
    THEN [refToQuery |-> name, useRemote |-> FALSE, pc |-> "L310"]
    ELSE [refToQuery |-> RemoteRef(name), useRemote |-> TRUE, pc |-> "L310"]

\* catch (remoteError), whatever the rev-parse of the local name does
RemoteErrorChoice(name, localOk) ==
    [refToQuery |-> name, useRemote |-> FALSE, pc |-> "L310"]

Settle(choice) ==
    /\ refToQuery' = choice.refToQuery
    /\ useRemote' = choice.useRemote
    /\ pc' = choice.pc
    /\ thrown' = IF choice.pc = "failed" THEN "hook" ELSE thrown

\* getCommits(branchOrTag, maxCount) up to its first await
GetCommits(name) ==
    /\ pc = "idle"
    /\ branchOrTag' = name
    /\ IF ~git
       THEN /\ pc' = "failed"
            /\ thrown' = "init"
            /\ UNCHANGED <<refToQuery, useRemote>>
       ELSE /\ pc' = "L244"
            /\ refToQuery' = name
            /\ useRemote' = FALSE
            /\ UNCHANGED thrown
    /\ UNCHANGED <<listing, filterCall, git, repoLocal, repoRemote, localCommit, remoteCommit, mergeBase,
                   localAhead, remoteAhead, calls>>
    /\ UNCHANGED divergenceVars
    /\ UNCHANGED <<compareVars, viewVars, scriptVars, modeVars>>

\* await this.git.revparse([remoteRef])
RevparseRemoteExists ==
    /\ pc = "L244"
    /\ \E ok \in IF repoRemote = NoRef THEN {FALSE} ELSE BOOLEAN :
          /\ calls' = Append(calls, Call("rev-parse", RemoteRef(branchOrTag), ok))
          /\ pc' = IF ok THEN "L248" ELSE "L300"
    /\ UNCHANGED <<listing, filterCall, git, repoLocal, repoRemote, branchOrTag, refToQuery, useRemote,
                   localCommit, remoteCommit, mergeBase, localAhead, remoteAhead, thrown>>
    /\ UNCHANGED divergenceVars
    /\ UNCHANGED <<compareVars, viewVars, scriptVars, modeVars>>

\* await this.git.revparse([branchOrTag]) inside the inner try
RevparseLocalExists ==
    /\ pc = "L248"
    /\ \E ok \in IF repoLocal = NoRef THEN {FALSE} ELSE BOOLEAN :
          /\ calls' = Append(calls, Call("rev-parse", branchOrTag, ok))
          /\ IF ok
             THEN pc' = "L251" /\ UNCHANGED <<refToQuery, useRemote, thrown>>
             ELSE Settle(LocalErrorChoice(branchOrTag))
    /\ UNCHANGED <<listing, filterCall, git, repoLocal, repoRemote, branchOrTag,
                   localCommit, remoteCommit, mergeBase, localAhead, remoteAhead>>
    /\ UNCHANGED divergenceVars
    /\ UNCHANGED <<compareVars, viewVars, scriptVars, modeVars>>

\* const localCommit = await this.git.revparse([branchOrTag])
RevparseLocalCommit ==
    /\ pc = "L251"
    /\ \E ok \in IF repoLocal = NoRef THEN {FALSE} ELSE BOOLEAN :
          /\ calls' = Append(calls, Call("rev-parse", branchOrTag, ok))
          /\ IF ok
             THEN /\ localCommit' = repoLocal
                  /\ pc' = "L252"
                  /\ UNCHANGED <<refToQuery, useRemote, thrown>>
             ELSE /\ Settle(LocalErrorChoice(branchOrTag))
                  /\ UNCHANGED localCommit
    /\ UNCHANGED <<listing, filterCall, git, repoLocal, repoRemote, branchOrTag,
                   remoteCommit, mergeBase, localAhead, remoteAhead>>
    /\ UNCHANGED divergenceVars
    /\ UNCHANGED <<compareVars, viewVars, scriptVars, modeVars>>

\* const remoteCommit = await this.git.revparse([remoteRef]); if (localCommit !== remoteCommit)
RevparseRemoteCommit ==
    /\ pc = "L252"
    /\ \E ok \in IF repoRemote = NoRef THEN {FALSE} ELSE BOOLEAN :
          /\ calls' = Append(calls, Call("rev-parse", RemoteRef(branchOrTag), ok))
          /\ IF ok
             THEN /\ remoteCommit' = repoRemote
                  /\ IF localCommit # repoRemote
                     THEN pc' = "L257" /\ UNCHANGED <<refToQuery, useRemote, thrown>>
                     ELSE Settle(SameCommitChoice(branchOrTag))
             ELSE /\ Settle(LocalErrorChoice(branchOrTag))
                  /\ UNCHANGED remoteCommit
    /\ UNCHANGED <<listing, filterCall, git, repoLocal, repoRemote, branchOrTag,
                   localCommit, mergeBase, localAhead, remoteAhead>>
    /\ UNCHANGED divergenceVars
    /\ UNCHANGED <<compareVars, viewVars, scriptVars, modeVars>>

\* const mergeBase = await this.git.raw(['merge-base', branchOrTag, remoteRef])
MergeBase ==
    /\ pc = "L257"
    /\ \/ \E out \in MergeBaseOutputs :
             /\ mergeBase' = out
             /\ calls' = Append(calls,
                    Call("merge-base", branchOrTag \o " " \o RemoteRef(branchOrTag), TRUE))
             /\ pc' = "L258"
             /\ UNCHANGED <<refToQuery, useRemote, thrown>>
       \/ /\ calls' = Append(calls,
                    Call("merge-base", branchOrTag \o " " \o RemoteRef(branchOrTag), FALSE))
          /\ Settle(CompareErrorChoice(branchOrTag))
          /\ UNCHANGED mergeBase
    /\ UNCHANGED <<listing, filterCall, git, repoLocal, repoRemote, branchOrTag,
                   localCommit, remoteCommit, localAhead, remoteAhead>>
    /\ UNCHANGED divergenceVars
    /\ UNCHANGED <<compareVars, viewVars, scriptVars, modeVars>>

\* const localAhead = await this.git.raw(['rev-list', '--count', `${mergeBase.trim()}..${branchOrTag}`])
RevListLocal ==
    /\ pc = "L258"
    /\ LET range == Str(Trim(mergeBase)) \o ".." \o branchOrTag
       IN  \/ \E out \in RevListOutputs :
                /\ localAhead' = out
                /\ calls' = Append(calls, Call("rev-list", range, TRUE))
                /\ pc' = "L259"
                /\ UNCHANGED <<refToQuery, useRemote, thrown>>
           \/ /\ calls' = Append(calls, Call("rev-list", range, FALSE))
              /\ Settle(CompareErrorChoice(branchOrTag))
              /\ UNCHANGED localAhead
    /\ UNCHANGED <<listing, filterCall, git, repoLocal, repoRemote, branchOrTag,
                   localCommit, remoteCommit, mergeBase, remoteAhead>>
    /\ UNCHANGED divergenceVars
    /\ UNCHANGED <<compareVars, viewVars, scriptVars, modeVars>>

\* const remoteAhead = await this.git.raw([... `${mergeBase.trim()}..${remoteRef}`]) and the
\* choice on the two parsed counts
RevListRemote ==
    /\ pc = "L259"
    /\ LET range == Str(Trim(mergeBase)) \o ".." \o RemoteRef(branchOrTag)
       IN  \/ \E out \in RevListOutputs :
                /\ remoteAhead' = out
                /\ calls' = Append(calls, Call("rev-list", range, TRUE))
                /\ Settle(AheadChoice(branchOrTag, AheadCount(localAhead), AheadCount(out)))
           \/ /\ calls' = Append(calls, Call("rev-list", range, FALSE))
              /\ Settle(CompareErrorChoice(branchOrTag))
              /\ UNCHANGED remoteAhead
    /\ UNCHANGED <<listing, filterCall, git, repoLocal, repoRemote, branchOrTag,
                   localCommit, remoteCommit, mergeBase, localAhead>>
    /\ UNCHANGED divergenceVars
    /\ UNCHANGED <<compareVars, viewVars, scriptVars, modeVars>>

\* catch (remoteError): await this.git.revparse([branchOrTag])
RevparseLocalFallback ==
    /\ pc = "L300"
    /\ \E ok \in IF repoLocal = NoRef THEN {FALSE} ELSE BOOLEAN :
          /\ calls' = Append(calls, Call("rev-parse", branchOrTag, ok))
          /\ Settle(RemoteErrorChoice(branchOrTag, ok))
    /\ UNCHANGED <<listing, filterCall, git, repoLocal, repoRemote, branchOrTag,
                   localCommit, remoteCommit, mergeBase, localAhead, remoteAhead>>
    /\ UNCHANGED divergenceVars
    /\ UNCHANGED <<compareVars, viewVars, scriptVars, modeVars>>

\* await this.git.log([refToQuery, '--max-count=' + maxCount]); the outer catch rethrows
GitLog ==
    /\ pc = "L310"
    /\ \E ok \in BOOLEAN :
          /\ calls' = Append(calls, Call("log", refToQuery, ok))
          /\ pc' = IF ok THEN "returned" ELSE "failed"
          /\ thrown' = IF ok THEN thrown ELSE "log"
          /\ listing' = IF ok THEN GitCommits(Take(RefLog(refToQuery), DefaultMaxCount))
                         ELSE listing
    /\ UNCHANGED <<filterCall, git, repoLocal, repoRemote, branchOrTag, refToQuery, useRemote,
                   localCommit, remoteCommit, mergeBase, localAhead, remoteAhead>>
    /\ UNCHANGED divergenceVars
    /\ UNCHANGED <<compareVars, viewVars, scriptVars, modeVars>>

\* ------------------------------------------------- branch difference
Hashes == {"h1", "h2", "h3"}
\* authors as character sequences: `${author_name} <${author_email}>`
AuthorAlice == <<"A", "l", " ", "<", "a", "l", "@", "x", ">">>
AuthorBob == <<"b", "o", " ", "<", "b", "o", "@", "x", ">">>

\* message, author and date a listed commit can carry
CommitDetails ==
    {[message |-> "fix", author |-> AuthorAlice, date |-> "2024-01-01"],
     [message |-> "fix bug", author |-> AuthorBob, date |-> "2024-02-02"]}

GitCommit == {[hash |-> h, date |-> d.date, message |-> d.message, author |-> d.author] :
                 h \in Hashes, d \in CommitDetails}

\* git log lists a commit once: the hashes of a list are distinct
CommitLists ==
    {l \in UNION {[1..n -> GitCommit] : n \in 0..MaxCommits} :
        \A i, j \in DOMAIN l : i # j => l[i].hash # l[j].hash}

\* new Map(commits.map(c => [c.hash, c])): a later entry replaces an earlier one
CommitMap(commits) ==
    [h \in {commits[i].hash : i \in DOMAIN commits} |->
        LET last == CHOOSE i \in DOMAIN commits :
                        /\ commits[i].hash = h
                        /\ \A j \in DOMAIN commits : commits[j].hash = h => j <= i
        IN  commits[last]]

\* Map.prototype.has
Has(map, h) == h \in DOMAIN map

\* a filter that consults the map of its own list
OnlyInFrom_ownMap(from, to) ==
    LET fromCommitMap == CommitMap(from)
        Keep(commit) == ~Has(fromCommitMap, commit.hash)
    IN  SelectSeq(from, Keep)

\* a filter keyed by message instead of hash
OnlyInFrom_byMessage(from, to) ==
    LET Keep(commit) == \A i \in DOMAIN to : to[i].message # commit.message
    IN  SelectSeq(from, Keep)

\* fromCommits.filter(commit => !toCommitMap.has(commit.hash))
OnlyInFrom(from, to) ==
    LET toCommitMap == CommitMap(to)
        Keep(commit) == ~Has(toCommitMap, commit.hash)
    IN  SelectSeq(from, Keep)

\* a filter that lost its negation
OnlyInTo_notNegated(from, to) ==
    LET fromCommitMap == CommitMap(from)
        Keep(commit) == Has(fromCommitMap, commit.hash)
    IN  SelectSeq(to, Keep)

\* toCommits.filter(commit => !fromCommitMap.has(commit.hash))
OnlyInTo(from, to) ==
    LET fromCommitMap == CommitMap(from)
        Keep(commit) == ~Has(fromCommitMap, commit.hash)
    IN  SelectSeq(to, Keep)

\* a loop that walks toCommits
RECURSIVE Different_overTo(_, _)
Different_overTo(from, to) ==
    IF to = <<>> THEN <<>>
    ELSE LET toCommit == Head(to)
             fromCommitMap == CommitMap(from)
             rest == Different_overTo(from, Tail(to))
         IN  IF Has(fromCommitMap, toCommit.hash)
                /\ fromCommitMap[toCommit.hash].message # toCommit.message
             THEN <<[hash |-> toCommit.hash,
                     fromMessage |-> fromCommitMap[toCommit.hash].message,
                     toMessage |-> toCommit.message,
                     author |-> fromCommitMap[toCommit.hash].author,
                     date |-> fromCommitMap[toCommit.hash].date]>> \o rest
             ELSE rest

\* a record that takes author and date from the to side
RECURSIVE Different_toAuthor(_, _)
Different_toAuthor(from, to) ==
    IF from = <<>> THEN <<>>
    ELSE LET fromCommit == Head(from)
             toCommitMap == CommitMap(to)
             rest == Different_toAuthor(Tail(from), to)
         IN  IF Has(toCommitMap, fromCommit.hash)
                /\ fromCommit.message # toCommitMap[fromCommit.hash].message
             THEN <<[hash |-> fromCommit.hash,
                     fromMessage |-> fromCommit.message,
                     toMessage |-> toCommitMap[fromCommit.hash].message,
                     author |-> toCommitMap[fromCommit.hash].author,
                     date |-> toCommitMap[fromCommit.hash].date]>> \o rest
             ELSE rest

\* for (const fromCommit of fromCommits) { ... different.push(...) }
RECURSIVE Different(_, _)
Different(from, to) ==
    IF from = <<>> THEN <<>>
    ELSE LET fromCommit == Head(from)
             toCommitMap == CommitMap(to)
             rest == Different(Tail(from), to)
         IN  IF Has(toCommitMap, fromCommit.hash)
                /\ fromCommit.message # toCommitMap[fromCommit.hash].message
             THEN <<[hash |-> fromCommit.hash,
                     fromMessage |-> fromCommit.message,
                     toMessage |-> toCommitMap[fromCommit.hash].message,
                     author |-> fromCommit.author,
                     date |-> fromCommit.date]>> \o rest
             ELSE rest

\* an early return when either list is empty
BranchDifference_emptyShortcut(from, to) ==
    IF from = <<>> \/ to = <<>>
    THEN [onlyInFrom |-> <<>>, onlyInTo |-> <<>>, different |-> <<>>]
    ELSE [onlyInFrom |-> OnlyInFrom(from, to),
          onlyInTo |-> OnlyInTo(from, to),
          different |-> Different(from, to)]

\* the object getBranchDifference resolves to
BranchDifference(from, to) ==
    [onlyInFrom |-> OnlyInFrom(from, to),
     onlyInTo |-> OnlyInTo(from, to),
     different |-> Different(from, to)]

\* the fields of a provider that has served no request
NoFields == [commits |-> <<>>, currentBranch |-> "", branches |-> <<>>, authorFilter |-> "",
             messageFilter |-> "", selectedCommits |-> {}]

\* the panel script's currentData before the first 'update' message
NoData == [initialized |-> FALSE, branches |-> <<>>, tags |-> <<>>, currentBranch |-> "",
           authorFilter |-> "", messageFilter |-> "", isCompareMode |-> FALSE]

NoFilter == <<>>
NoCompareArgs == [from |-> "", to |-> "", hideIdentical |-> FALSE, authorFilter |-> NoFilter]

NoDifference == [onlyInFrom |-> <<>>, onlyInTo |-> <<>>, different |-> <<>>]

\* getBranchDifference(fromBranch, toBranch): the two getCommits calls return
\* the lists from and to, or one of them rejects and the catch rethrows
GetBranchDifference(from, to) ==
    /\ dpc = "idle"
    /\ \/ /\ fromCommits' = from
          /\ toCommits' = to
          /\ difference' = BranchDifference(from, to)
          /\ dpc' = "done"
       \/ /\ dpc' = "failed"
          /\ UNCHANGED <<fromCommits, toCommits, difference>>
    /\ UNCHANGED <<previous, comparisonContent>>
    /\ UNCHANGED resolveVars
    /\ UNCHANGED <<compareVars, viewVars, scriptVars, modeVars>>

Reorderings(s) ==
    {[i \in DOMAIN s |-> s[p[i]]] :
        p \in {q \in [DOMAIN s -> DOMAIN s] : \A i, j \in DOMAIN s : i # j => q[i] # q[j]}}

\* the next request: the same two branches the other way round, or the same
\* two lists in another order
FollowUps(from, to) ==
    {<<to, from>>} \cup (Reorderings(from) \X Reorderings(to))

GetBranchDifferenceAgain ==
    /\ dpc = "done"
    /\ comparisonContent = <<>>
    /\ \E ft \in FollowUps(fromCommits, toCommits) :
          /\ fromCommits' = ft[1]
          /\ toCommits' = ft[2]
          /\ difference' = BranchDifference(ft[1], ft[2])
    /\ previous' = <<[fromCommits |-> fromCommits, toCommits |-> toCommits,
                      difference |-> difference]>>
    /\ dpc' = "again"
    /\ UNCHANGED comparisonContent
    /\ UNCHANGED resolveVars
    /\ UNCHANGED <<compareVars, viewVars, scriptVars, modeVars>>

\* ------------------------------- the comparison document of GitLogProvider
RECURSIVE IndexOf(_, _, _)
IndexOf(str, c, i) ==
    IF i > Len(str) THEN 0 ELSE IF str[i] = c THEN i ELSE IndexOf(str, c, i + 1)

RECURSIVE LastIndexOf(_, _, _)
LastIndexOf(str, c, i) ==
    IF i < 1 THEN 0 ELSE IF str[i] = c THEN i ELSE LastIndexOf(str, c, i - 1)

\* author.replace(/<.*>/, '').trim(): the first "<" that a ">" follows, up to
\* the last ">", is cut out
AuthorDisplay(author) ==
    LET close == LastIndexOf(author, ">", Len(author))
        open == IndexOf(author, "<", 1)
    IN  IF open > 0 /\ close > open
        THEN Trim(SubSeq(author, 1, open - 1) \o SubSeq(author, close + 1, Len(author)))
        ELSE Trim(author)

Line(tag, subject, count, author, text) ==
    [tag |-> tag, subject |-> subject, count |-> count, author |-> author, text |-> text]

RECURSIVE CommitLines(_)
CommitLines(commits) ==
    IF commits = <<>> THEN <<>>
    ELSE <<Line("commit", Head(commits).hash, 0, AuthorDisplay(Head(commits).author), ""),
           Line("message", "", 0, <<>>, Head(commits).message),
           Line("blank", "", 0, <<>>, "")>> \o CommitLines(Tail(commits))

RECURSIVE DifferentLines(_, _, _)
DifferentLines(fromBranch, toBranch, diffs) ==
    IF diffs = <<>> THEN <<>>
    ELSE <<Line("commit", Head(diffs).hash, 0, AuthorDisplay(Head(diffs).author), ""),
           Line("fromMessage", fromBranch, 0, <<>>, Head(diffs).fromMessage),
           Line("toMessage", toBranch, 0, <<>>, Head(diffs).toMessage),
           Line("blank", "", 0, <<>>, "")>> \o DifferentLines(fromBranch, toBranch, Tail(diffs))

\* the three statistics lines, the second one with the length of onlyInFrom
StatisticsLines_copiedLength(fromBranch, toBranch, diff) ==
    <<Line("onlyInFromCount", fromBranch, Len(diff.onlyInFrom), <<>>, ""),
      Line("onlyInToCount", toBranch, Len(diff.onlyInFrom), <<>>, ""),
      Line("differentCount", "", Len(diff.different), <<>>, "")>>

\* the three statistics lines
StatisticsLines(fromBranch, toBranch, diff) ==
    <<Line("onlyInFromCount", fromBranch, Len(diff.onlyInFrom), <<>>, ""),
      Line("onlyInToCount", toBranch, Len(diff.onlyInTo), <<>>, ""),
      Line("differentCount", "", Len(diff.different), <<>>, "")>>

\* generateBranchComparisonContent(fromBranch, toBranch, difference), line by line
GenerateBranchComparisonContent(fromBranch, toBranch, diff) ==
    <<Line("title", fromBranch, 0, <<>>, toBranch),
      Line("rule", "=", 60, <<>>, ""),
      Line("blank", "", 0, <<>>, ""),
      Line("statistics", "", 0, <<>>, "")>>
    \o StatisticsLines(fromBranch, toBranch, diff)
    \o <<Line("blank", "", 0, <<>>, "")>>
    \o (IF Len(diff.onlyInFrom) > 0
        THEN <<Line("onlyInFrom", fromBranch, 0, <<>>, ""), Line("rule", "-", 40, <<>>, "")>>
             \o CommitLines(diff.onlyInFrom)
        ELSE <<>>)
    \o (IF Len(diff.onlyInTo) > 0
        THEN <<Line("onlyInTo", toBranch, 0, <<>>, ""), Line("rule", "-", 40, <<>>, "")>>
             \o CommitLines(diff.onlyInTo)
        ELSE <<>>)
    \o (IF Len(diff.different) > 0
        THEN <<Line("different", "", 0, <<>>, ""), Line("rule", "-", 40, <<>>, "")>>
             \o DifferentLines(fromBranch, toBranch, diff.different)
        ELSE <<>>)
    \o (IF Len(diff.onlyInFrom) = 0 /\ Len(diff.onlyInTo) = 0 /\ Len(diff.different) = 0
        THEN <<Line("noDifference", "", 0, <<>>, "")>>
        ELSE <<>>)
    \o <<Line("blank", "", 0, <<>>, ""), Line("generated", "", 0, <<>>, "")>>

\* showBranchComparisonInEditor once getBranchDifference has resolved: the
\* content is generated from the result and opened in an editor
ShowBranchComparisonInEditor ==
    /\ dpc \in {"done", "again"}
    /\ comparisonContent = <<>>
    /\ comparisonContent' = GenerateBranchComparisonContent("main", "dev", difference)
    /\ UNCHANGED <<dpc, fromCommits, toCommits, difference, previous>>
    /\ UNCHANGED resolveVars
    /\ UNCHANGED <<compareVars, viewVars, scriptVars, modeVars>>

NextDivergence ==
    \/ dpc = "idle" /\ \E from, to \in CommitLists : GetBranchDifference(from, to)
    \/ GetBranchDifferenceAgain
    \/ ShowBranchComparisonInEditor

\* a constructed GitService, no request made yet
InitDivergence ==
    /\ git = TRUE
    /\ repoLocal = NoRef
    /\ repoRemote = NoRef
    /\ pc = "idle"
    /\ branchOrTag = ""
    /\ refToQuery = ""
    /\ useRemote = FALSE
    /\ localCommit = ""
    /\ remoteCommit = ""
    /\ mergeBase = <<>>
    /\ localAhead = <<>>
    /\ remoteAhead = <<>>
    /\ calls = <<>>
    /\ thrown = "none"
    /\ listing = <<>>
    /\ filterCall = NoFilterCall
    /\ dpc = "idle"
    /\ fromCommits = <<>>
    /\ toCommits = <<>>
    /\ difference = NoDifference
    /\ previous = <<>>
    /\ comparisonContent = <<>>
    /\ provider = "webviewProvider.ts"
    /\ lastCompareFrom = ""
    /\ lastCompareTo = ""
    /\ cpc = "idle"
    /\ compareArgs = NoCompareArgs
    /\ compareLogs = <<>>
    /\ finalFromCommits = <<>>
    /\ finalToCommits = <<>>
    /\ currentBranch = ""
    /\ branches = <<>>
    /\ shownCommits = <<>>
    /\ shownAuthorFilter = ""
    /\ messageFilter = ""
    /\ selectedCommits = {}
    /\ branchSearchQuery = ""
    /\ requests = <<>>
    /\ serviceCalls = <<>>
    /\ posted = <<>>
    /\ notified = <<>>
    /\ before = NoFields
    /\ userInputCallbacks = <<>>
    /\ now = 0
    /\ scriptLog = <<>>
    /\ answered = {}
    /\ toScript = <<>>
    /\ selectedDeleteBranches = <<>>
    /\ currentData = NoData
    /\ appActions = <<>>
    /\ invoked = <<>>
    /\ isCompareMode = FALSE
    /\ compareInfo = NoCompareInfo
    /\ loading = <<>>

SpecDivergence == InitDivergence /\ [][NextDivergence]_vars

\* ------------------------------------------- compareBranches of the panel
\* the two sources of GitLogWebviewProvider in the repository
Providers == {"webviewProvider.ts", "part_006"}

UpperCase == <<"A", "B", "C", "D", "E", "F", "G", "H", "I", "J", "K", "L", "M",
               "N", "O", "P", "Q", "R", "S", "T", "U", "V", "W", "X", "Y", "Z">>
LowerCase == <<"a", "b", "c", "d", "e", "f", "g", "h", "i", "j", "k", "l", "m",
               "n", "o", "p", "q", "r", "s", "t", "u", "v", "w", "x", "y", "z">>

LowerMap == [c \in {UpperCase[i] : i \in DOMAIN UpperCase} |->
                LowerCase[CHOOSE i \in DOMAIN UpperCase : UpperCase[i] = c]]

LowerChar(c) == IF c \in DOMAIN LowerMap THEN LowerMap[c] ELSE c

\* String.prototype.toLowerCase
ToLowerCase(str) == [i \in DOMAIN str |-> LowerChar(str[i])]

\* String.prototype.includes
Includes(str, search) ==
    \E i \in 1..(Len(str) - Len(search) + 1) : SubSeq(str, i, i + Len(search) - 1) = search

\* messages and filters as character sequences
MessageFix == <<"f", "i", "x">>
MessageFixIndented == <<" ", "f", "i", "x">>
AuthorFilters == {NoFilter, <<"A", "L">>}

ComparedDetails ==
    {[message |-> MessageFix, author |-> AuthorAlice, date |-> "2024-01-01"],
     [message |-> MessageFix, author |-> AuthorBob, date |-> "2024-01-01"],
     [message |-> MessageFixIndented, author |-> AuthorAlice, date |-> "2024-01-01"]}

ComparedCommit == {[hash |-> h, date |-> d.date, message |-> d.message, author |-> d.author] :
                      h \in Hashes, d \in ComparedDetails}

\* the lists the two getCommits calls can return: a hash once per list
ComparedLists ==
    {l \in UNION {[1..n -> ComparedCommit] : n \in 0..MaxCommits} :
        \A i, j \in DOMAIN l : i # j => l[i].hash # l[j].hash}

\* commit.author.toLowerCase().includes(authorFilter.toLowerCase())
AuthorMatches(commit, authorFilter) ==
    Includes(ToLowerCase(commit.author), ToLowerCase(authorFilter))

\* if (authorFilter) { commits.filter(...) }
FilterByAuthor(commits, authorFilter) ==
    LET Keep(commit) == AuthorMatches(commit, authorFilter)
    IN  IF authorFilter # <<>> THEN SelectSeq(commits, Keep) ELSE commits

\* what enters the message sets: c.message.trim() in webviewProvider.ts,
\* c.message in the other source
MessageKey(prov, message) ==
    IF prov = "webviewProvider.ts" THEN Trim(message) ELSE message

\* new Set(commits.map(c => key(c.message)))
MessageSet(prov, commits) == {MessageKey(prov, commits[i].message) : i \in DOMAIN commits}

\* commits.filter(c => !otherMessages.has(key(c.message)))
WithoutMessages(prov, commits, otherMessages) ==
    LET Keep(commit) == MessageKey(prov, commit.message) \notin otherMessages
    IN  SelectSeq(commits, Keep)

\* message sets taken from the lists as getCommits returned them
FinalCommits_unfilteredMessages(prov, fromLog, toLog, hideIdentical, authorFilter) ==
    LET filteredFrom == FilterByAuthor(fromLog, authorFilter)
        filteredTo == FilterByAuthor(toLog, authorFilter)
    IN  IF hideIdentical
        THEN [from |-> WithoutMessages(prov, filteredFrom, MessageSet(prov, toLog)),
              to |-> WithoutMessages(prov, filteredTo, MessageSet(prov, fromLog))]
        ELSE [from |-> filteredFrom, to |-> filteredTo]

\* the author filter, then the hide-identical filter
FinalCommits(prov, fromLog, toLog, hideIdentical, authorFilter) ==
    LET filteredFrom == FilterByAuthor(fromLog, authorFilter)
        filteredTo == FilterByAuthor(toLog, authorFilter)
    IN  IF hideIdentical
        THEN [from |-> WithoutMessages(prov, filteredFrom, MessageSet(prov, filteredTo)),
              to |-> WithoutMessages(prov, filteredTo, MessageSet(prov, filteredFrom))]
        ELSE [from |-> filteredFrom, to |-> filteredTo]

\* compareBranches remembering the two names only once both lists arrived
CompareBranches_rememberOnSuccess(from, to, hideIdentical, authorFilter, fromLog, toLog) ==
    /\ compareArgs' = [from |-> from, to |-> to, hideIdentical |-> hideIdentical,
                       authorFilter |-> authorFilter]
    /\ \/ /\ compareLogs' = <<fromLog, toLog>>
          /\ LET final == FinalCommits(provider, fromLog, toLog, hideIdentical, authorFilter)
             IN  /\ finalFromCommits' = final.from
                 /\ finalToCommits' = final.to
          /\ cpc' = "shown"
          /\ IF provider = "webviewProvider.ts"
             THEN lastCompareFrom' = from /\ lastCompareTo' = to
             ELSE UNCHANGED <<lastCompareFrom, lastCompareTo>>
       \/ /\ cpc' = "failed"
          /\ UNCHANGED <<compareLogs, finalFromCommits, finalToCommits>>
          /\ UNCHANGED <<lastCompareFrom, lastCompareTo>>
    /\ UNCHANGED provider
    /\ UNCHANGED resolveVars
    /\ UNCHANGED divergenceVars

\* compareBranches(from, to, hideIdentical, authorFilter): the two getCommits
\* calls return fromLog and toLog and the view is opened on the filtered
\* lists, or a call rejects and the catch shows the error
CompareBranches(from, to, hideIdentical, authorFilter, fromLog, toLog) ==
    /\ compareArgs' = [from |-> from, to |-> to, hideIdentical |-> hideIdentical,
                       authorFilter |-> authorFilter]
    /\ IF provider = "webviewProvider.ts"
       THEN lastCompareFrom' = from /\ lastCompareTo' = to
       ELSE UNCHANGED <<lastCompareFrom, lastCompareTo>>
    /\ \/ /\ compareLogs' = <<fromLog, toLog>>
          /\ LET final == FinalCommits(provider, fromLog, toLog, hideIdentical, authorFilter)
             IN  /\ finalFromCommits' = final.from
                 /\ finalToCommits' = final.to
          /\ cpc' = "shown"
       \/ /\ cpc' = "failed"
          /\ UNCHANGED <<compareLogs, finalFromCommits, finalToCommits>>
    /\ UNCHANGED provider
    /\ UNCHANGED resolveVars
    /\ UNCHANGED divergenceVars

NextCompare ==
    /\ cpc = "idle"
    /\ \E hideIdentical \in BOOLEAN, authorFilter \in AuthorFilters,
          fromLog \in ComparedLists, toLog \in ComparedLists :
           CompareBranches("main", "dev", hideIdentical, authorFilter, fromLog, toLog)
    /\ UNCHANGED <<viewVars, scriptVars, modeVars>>

InitCompare ==
    /\ git = TRUE
    /\ repoLocal = NoRef
    /\ repoRemote = NoRef
    /\ pc = "idle"
    /\ branchOrTag = ""
    /\ refToQuery = ""
    /\ useRemote = FALSE
    /\ localCommit = ""
    /\ remoteCommit = ""
    /\ mergeBase = <<>>
    /\ localAhead = <<>>
    /\ remoteAhead = <<>>
    /\ calls = <<>>
    /\ thrown = "none"
    /\ listing = <<>>
    /\ filterCall = NoFilterCall
    /\ dpc = "idle"
    /\ fromCommits = <<>>
    /\ toCommits = <<>>
    /\ difference = NoDifference
    /\ previous = <<>>
    /\ comparisonContent = <<>>
    /\ provider \in Providers
    /\ lastCompareFrom = ""
    /\ lastCompareTo = ""
    /\ cpc = "idle"
    /\ compareArgs = NoCompareArgs
    /\ compareLogs = <<>>
    /\ finalFromCommits = <<>>
    /\ finalToCommits = <<>>
    /\ currentBranch = ""
    /\ branches = <<>>
    /\ shownCommits = <<>>
    /\ shownAuthorFilter = ""
    /\ messageFilter = ""
    /\ selectedCommits = {}
    /\ branchSearchQuery = ""
    /\ requests = <<>>
    /\ serviceCalls = <<>>
    /\ posted = <<>>
    /\ notified = <<>>
    /\ before = NoFields
    /\ userInputCallbacks = <<>>
    /\ now = 0
    /\ scriptLog = <<>>
    /\ answered = {}
    /\ toScript = <<>>
    /\ selectedDeleteBranches = <<>>
    /\ currentData = NoData
    /\ appActions = <<>>
    /\ invoked = <<>>
    /\ isCompareMode = FALSE
    /\ compareInfo = NoCompareInfo
    /\ loading = <<>>

SpecCompare == InitCompare /\ [][NextCompare]_vars

\* ------------------------- the request handlers of src/webviewProvider.ts
MaxRequests == 3

Fields ==
    [commits |-> shownCommits, currentBranch |-> currentBranch, branches |-> branches,
     authorFilter |-> shownAuthorFilter, messageFilter |-> messageFilter,
     selectedCommits |-> selectedCommits]

Request(type, from, to) == [type |-> type, from |-> from, to |-> to]

ServiceCall(name, outcome) == [name |-> name, outcome |-> outcome]

Message(type, args) == [type |-> type, args |-> args]

\* a vscode.window message and what the awaited dialog came to, if awaited
Notice(kind, answer) == [kind |-> kind, answer |-> answer]

ErrorShown == Notice("error", "")

InformationShown == Notice("information", "")

Warning(answer) == Notice("warning", answer)

\* the list a resolved getCommits / filterCommits hands to loadCommits
LoadedCommits ==
    <<[hash |-> "h1", message |-> MessageFix, author |-> AuthorAlice, date |-> "2024-01-01"]>>

\* what the git call of loadCommits can come to
LoadResults == {[ok |-> TRUE, value |-> LoadedCommits], [ok |-> FALSE, value |-> <<>>]}

\* onDidReceiveMessage dispatches one more message
Receive(type, from, to) ==
    /\ Len(requests) < MaxRequests
    /\ requests' = Append(requests, Request(type, from, to))
    /\ before' = Fields

\* loadCommits() for the branch and filters the handler is left with. The list
\* replaces `commits`; when the call rejects the catch posts an error and keeps
\* the commits (src/webviewProvider.ts) or empties them (part_006), and part_006
\* empties them without a call when there is no current branch
\* The call is compareCommits in compare mode with both names set, else
\* filterCommits with a filter set, else getCommits
LoadedIn(mode, info, branch, authorFilter, message, result) ==
    IF provider = "part_006" /\ branch = ""
    THEN [commits |-> <<>>, calls |-> <<>>, posts |-> <<>>]
    ELSE [commits |-> IF result.ok THEN result.value
                      ELSE IF provider = "part_006" THEN <<>> ELSE shownCommits,
          calls |-> <<ServiceCall(IF mode /\ info.from # "" /\ info.to # ""
                                  THEN "compareCommits"
                                  ELSE IF authorFilter # "" \/ message # ""
                                  THEN "filterCommits" ELSE "getCommits",
                                  IF result.ok THEN "resolved" ELSE "rejected")>>,
          posts |-> IF result.ok THEN <<>> ELSE <<Message("error", <<>>)>>]

\* loadCommits() in a handler that leaves isCompareMode and compareInfo alone
Loaded(branch, authorFilter, message, result) ==
    LoadedIn(isCompareMode, compareInfo, branch, authorFilter, message, result)

\* await this.loadCommits(); this.updateWebview();
LoadCommitsIn(mode, info, branch, authorFilter, message, result) ==
    LET loaded == LoadedIn(mode, info, branch, authorFilter, message, result)
    IN  /\ serviceCalls' = loaded.calls
        /\ shownCommits' = loaded.commits
        /\ posted' = loaded.posts \o <<Message("update", <<>>)>>
        /\ notified' = <<>>

LoadCommits(branch, authorFilter, message, result) ==
    LoadCommitsIn(isCompareMode, compareInfo, branch, authorFilter, message, result)

\* initializeData(): branches, tags and the current branch are read and the
\* commits loaded; outside a repository every field is emptied; when a call
\* rejects src/webviewProvider.ts empties the fields too and part_006 posts an
\* error and leaves them
InitializeData(outcome, result) ==
    /\ Receive("initialize", "", "")
    /\ IF outcome = "repository"
       THEN /\ branches' = <<"main", "dev">>
            /\ currentBranch' = "main"
            /\ LoadCommits("main", shownAuthorFilter, messageFilter, result)
       ELSE IF outcome = "rejected" /\ provider = "part_006"
       THEN /\ serviceCalls' = <<ServiceCall("isGitRepository", "rejected")>>
            /\ posted' = <<Message("error", <<>>)>>
            /\ notified' = <<>>
            /\ UNCHANGED <<branches, currentBranch, shownCommits>>
       ELSE /\ branches' = <<>>
            /\ currentBranch' = ""
            /\ shownCommits' = <<>>
            /\ serviceCalls' = <<ServiceCall("isGitRepository",
                                             IF outcome = "rejected" THEN "rejected"
                                             ELSE "resolved")>>
            /\ posted' = <<Message("update", <<>>)>>
            /\ notified' = <<>>
    /\ UNCHANGED <<shownAuthorFilter, messageFilter, selectedCommits, branchSearchQuery>>
    /\ UNCHANGED <<resolveVars, divergenceVars, compareVars, scriptVars, modeVars>>

\* switchBranch(branchName), its load settling before the next message
SwitchBranch(branchName, result) ==
    /\ Receive("switchBranch", "", "")
    /\ currentBranch' = branchName
    /\ isCompareMode' = FALSE
    /\ LoadCommitsIn(FALSE, compareInfo, branchName, shownAuthorFilter, messageFilter, result)
    /\ UNCHANGED <<branches, shownAuthorFilter, messageFilter, selectedCommits,
                   branchSearchQuery, compareInfo, loading>>
    /\ UNCHANGED <<resolveVars, divergenceVars, compareVars, scriptVars>>

FilterAuthor(author, result) ==
    /\ Receive("filterAuthor", "", "")
    /\ shownAuthorFilter' = author
    /\ LoadCommits(currentBranch, author, messageFilter, result)
    /\ UNCHANGED <<currentBranch, branches, messageFilter, selectedCommits,
                   branchSearchQuery>>
    /\ UNCHANGED <<resolveVars, divergenceVars, compareVars, scriptVars, modeVars>>

FilterMessage(message, result) ==
    /\ Receive("filterMessage", "", "")
    /\ messageFilter' = message
    /\ LoadCommits(currentBranch, shownAuthorFilter, message, result)
    /\ UNCHANGED <<currentBranch, branches, shownAuthorFilter, selectedCommits,
                   branchSearchQuery>>
    /\ UNCHANGED <<resolveVars, divergenceVars, compareVars, scriptVars, modeVars>>

ClearFilters(result) ==
    /\ Receive("clearFilters", "", "")
    /\ shownAuthorFilter' = ""
    /\ messageFilter' = ""
    /\ LoadCommits(currentBranch, "", "", result)
    /\ UNCHANGED <<currentBranch, branches, selectedCommits, branchSearchQuery>>
    /\ UNCHANGED <<resolveVars, divergenceVars, compareVars, scriptVars, modeVars>>

\* showCompareModal(): the remembered names go out with the branch lists
ShowCompareModal ==
    /\ Receive("showCompareModal", "", "")
    /\ posted' = <<Message("showCompareModal", <<lastCompareFrom, lastCompareTo>>)>>
    /\ serviceCalls' = <<>>
    /\ notified' = <<>>
    /\ UNCHANGED <<currentBranch, branches, shownCommits, shownAuthorFilter, messageFilter,
                   selectedCommits, branchSearchQuery>>
    /\ UNCHANGED <<resolveVars, divergenceVars, compareVars, scriptVars, modeVars>>

\* a compareBranches that enters compare mode with the two names
ReceiveCompareBranches_entersMode(from, to, hideIdentical, authorFilter, fromLog, toLog) ==
    /\ Receive("compareBranches", from, to)
    /\ CompareBranches(from, to, hideIdentical, authorFilter, fromLog, toLog)
    /\ serviceCalls' = <<ServiceCall("getCommits", IF cpc' = "failed" THEN "rejected" ELSE "resolved")>>
    /\ notified' = <<IF cpc' = "failed" THEN ErrorShown ELSE InformationShown>>
    /\ posted' = <<>>
    /\ isCompareMode' = TRUE
    /\ compareInfo' = [from |-> from, to |-> to]
    /\ UNCHANGED <<currentBranch, branches, shownCommits, shownAuthorFilter, messageFilter,
                   selectedCommits, branchSearchQuery, loading>>
    /\ UNCHANGED scriptVars

\* the 'compareBranches' message: compareBranches(data.from, data.to, ...) runs
\* and ends in the information message or, from its catch, the error message
ReceiveCompareBranches(from, to, hideIdentical, authorFilter, fromLog, toLog) ==
    /\ Receive("compareBranches", from, to)
    /\ CompareBranches(from, to, hideIdentical, authorFilter, fromLog, toLog)
    /\ serviceCalls' = <<ServiceCall("getCommits", IF cpc' = "failed" THEN "rejected" ELSE "resolved")>>
    /\ notified' = <<IF cpc' = "failed" THEN ErrorShown ELSE InformationShown>>
    /\ posted' = <<>>
    /\ UNCHANGED <<currentBranch, branches, shownCommits, shownAuthorFilter, messageFilter,
                   selectedCommits, branchSearchQuery>>
    /\ UNCHANGED <<scriptVars, modeVars>>

\* exitCompareMode(): the mode and the names are reset, then the commits of
\* the current branch are loaded again, or emptied without a branch
ExitCompareMode(result) ==
    /\ Receive("exitCompareMode", "", "")
    /\ isCompareMode' = FALSE
    /\ compareInfo' = NoCompareInfo
    /\ IF currentBranch # ""
       THEN LoadCommitsIn(FALSE, NoCompareInfo, currentBranch, shownAuthorFilter,
                          messageFilter, result)
       ELSE /\ shownCommits' = <<>>
            /\ serviceCalls' = <<>>
            /\ posted' = <<Message("update", <<>>)>>
            /\ notified' = <<>>
    /\ UNCHANGED <<currentBranch, branches, shownAuthorFilter, messageFilter,
                   selectedCommits, branchSearchQuery, loading>>
    /\ UNCHANGED <<resolveVars, divergenceVars, compareVars, scriptVars>>

\* toggleCommitSelection(hash)
SelectCommit(hash) ==
    /\ Receive("selectCommit", "", "")
    /\ selectedCommits' = IF hash \in selectedCommits
                          THEN selectedCommits \ {hash} ELSE selectedCommits \cup {hash}
    /\ serviceCalls' = <<>>
    /\ posted' = <<Message("update", <<>>)>>
    /\ notified' = <<>>
    /\ UNCHANGED <<currentBranch, branches, shownCommits, shownAuthorFilter, messageFilter,
                   branchSearchQuery>>
    /\ UNCHANGED <<resolveVars, divergenceVars, compareVars, scriptVars, modeVars>>

\* case 'searchBranches'
SearchBranches(query) ==
    /\ Receive("searchBranches", "", "")
    /\ branchSearchQuery' = query
    /\ serviceCalls' = <<>>
    /\ posted' = <<Message("update", <<>>)>>
    /\ notified' = <<>>
    /\ UNCHANGED <<currentBranch, branches, shownCommits, shownAuthorFilter, messageFilter,
                   selectedCommits>>
    /\ UNCHANGED <<resolveVars, divergenceVars, compareVars, scriptVars, modeVars>>

NextPanel ==
    \/ \E outcome \in {"repository", "none", "rejected"}, result \in LoadResults :
          InitializeData(outcome, result)
    \/ \E branchName \in Names, result \in LoadResults : SwitchBranch(branchName, result)
    \/ \E result \in LoadResults : FilterAuthor("al", result)
    \/ \E result \in LoadResults : FilterMessage("fix", result)
    \/ \E result \in LoadResults : ClearFilters(result)
    \/ ShowCompareModal
    \/ \E from, to \in Names :
          ReceiveCompareBranches(from, to, FALSE, NoFilter, LoadedCommits, LoadedCommits)
    \/ \E result \in LoadResults : ExitCompareMode(result)
    \/ SelectCommit("h1")
    \/ SearchBranches("de")

InitPanel ==
    /\ git = TRUE
    /\ repoLocal = NoRef
    /\ repoRemote = NoRef
    /\ pc = "idle"
    /\ branchOrTag = ""
    /\ refToQuery = ""
    /\ useRemote = FALSE
    /\ localCommit = ""
    /\ remoteCommit = ""
    /\ mergeBase = <<>>
    /\ localAhead = <<>>
    /\ remoteAhead = <<>>
    /\ calls = <<>>
    /\ thrown = "none"
    /\ listing = <<>>
    /\ filterCall = NoFilterCall
    /\ dpc = "idle"
    /\ fromCommits = <<>>
    /\ toCommits = <<>>
    /\ difference = NoDifference
    /\ previous = <<>>
    /\ comparisonContent = <<>>
    /\ provider = "webviewProvider.ts"
    /\ lastCompareFrom = ""
    /\ lastCompareTo = ""
    /\ cpc = "idle"
    /\ compareArgs = NoCompareArgs
    /\ compareLogs = <<>>
    /\ finalFromCommits = <<>>
    /\ finalToCommits = <<>>
    /\ currentBranch = ""
    /\ branches = <<>>
    /\ shownCommits = <<>>
    /\ shownAuthorFilter = ""
    /\ messageFilter = ""
    /\ selectedCommits = {}
    /\ branchSearchQuery = ""
    /\ requests = <<>>
    /\ serviceCalls = <<>>
    /\ posted = <<>>
    /\ notified = <<>>
    /\ before = NoFields
    /\ userInputCallbacks = <<>>
    /\ now = 0
    /\ scriptLog = <<>>
    /\ answered = {}
    /\ toScript = <<>>
    /\ selectedDeleteBranches = <<>>
    /\ currentData = NoData
    /\ appActions = <<>>
    /\ invoked = <<>>
    /\ isCompareMode = FALSE
    /\ compareInfo = NoCompareInfo
    /\ loading = <<>>

SpecPanel == InitPanel /\ [][NextPanel]_vars

\* ------------------------------ the history-rewriting handlers of part_006
MaxMutations == 1

MutatingRequests ==
    {"createStash", "applyStash", "dropStash", "performRebase", "createBranch",
     "deleteBranches", "performCherryPick", "resetToRemote"}

\* the GitService methods that change the repository
MutatingCalls ==
    {"createStash", "applyStash", "dropStash", "rebaseOnto", "createBranch",
     "deleteBranches", "cherryPick", "cherryPickMultiple", "resetToRemote"}

Outcome(ok) == IF ok THEN "resolved" ELSE "rejected"

\* one more message of a history-rewriting type is dispatched
ReceiveMutating(type) ==
    /\ Cardinality({i \in DOMAIN requests : requests[i].type \in MutatingRequests})
          < MaxMutations
    /\ Receive(type, "", "")

\* what the handler did and what it left in the fields it can write
Served(serviceCalled, messages, notices, commits, branch, branchList) ==
    /\ serviceCalls' = serviceCalled
    /\ posted' = messages
    /\ notified' = notices
    /\ shownCommits' = commits
    /\ currentBranch' = branch
    /\ branches' = branchList
    /\ UNCHANGED <<shownAuthorFilter, messageFilter, selectedCommits, branchSearchQuery>>
    /\ UNCHANGED <<resolveVars, divergenceVars, compareVars, scriptVars, modeVars>>

\* getStashList(): the list is posted, or its own catch shows the error
StashListed(listOk) ==
    [calls |-> <<ServiceCall("getStashList", Outcome(listOk))>>,
     posts |-> IF listOk THEN <<Message("stashList", <<>>)>> ELSE <<>>,
     notes |-> IF listOk THEN <<>> ELSE <<ErrorShown>>]

StashMessages == {<<>>, <<" ">>, <<"w", " ">>}

\* createStash(message)
CreateStash(message, createOk, listOk) ==
    /\ ReceiveMutating("createStash")
    /\ IF Trim(message) = <<>>
       THEN Served(<<>>, <<Message("error", <<>>)>>, <<>>,
                   shownCommits, currentBranch, branches)
       ELSE IF ~createOk
       THEN Served(<<ServiceCall("createStash", "rejected")>>, <<>>, <<ErrorShown>>,
                   shownCommits, currentBranch, branches)
       ELSE Served(<<ServiceCall("createStash", "resolved")>> \o StashListed(listOk).calls,
                   StashListed(listOk).posts,
                   <<InformationShown>> \o StashListed(listOk).notes,
                   shownCommits, currentBranch, branches)

\* applyStash(index)
ApplyStash(index, applyOk, listOk, result) ==
    /\ ReceiveMutating("applyStash")
    /\ IF ~applyOk
       THEN Served(<<ServiceCall("applyStash", "rejected")>>, <<>>, <<ErrorShown>>,
                   shownCommits, currentBranch, branches)
       ELSE LET loaded == Loaded(currentBranch, shownAuthorFilter, messageFilter, result)
            IN  Served(<<ServiceCall("applyStash", "resolved")>>
                          \o StashListed(listOk).calls \o loaded.calls,
                       StashListed(listOk).posts \o loaded.posts \o <<Message("update", <<>>)>>,
                       <<InformationShown>> \o StashListed(listOk).notes,
                       loaded.commits, currentBranch, branches)

\* dropStash(index)
DropStash(index, dropOk, listOk) ==
    /\ ReceiveMutating("dropStash")
    /\ IF ~dropOk
       THEN Served(<<ServiceCall("dropStash", "rejected")>>, <<>>, <<ErrorShown>>,
                   shownCommits, currentBranch, branches)
       ELSE Served(<<ServiceCall("dropStash", "resolved")>> \o StashListed(listOk).calls,
                   StashListed(listOk).posts,
                   <<InformationShown>> \o StashListed(listOk).notes,
                   shownCommits, currentBranch, branches)

\* what getWorkingDirectoryStatus() can come to
StatusOutcomes == {"clean", "changes", "rejected"}

\* the status check both performRebase and performCherryPick open with; the
\* warning is awaited, so its rejection lands in the catch as well
StatusChecked(status, warned) ==
    [calls |-> <<ServiceCall("getWorkingDirectoryStatus",
                             Outcome(status # "rejected"))>>,
     notes |-> IF status = "rejected" THEN <<ErrorShown>>
               ELSE IF status = "changes"
               THEN (IF warned THEN <<Warning("closed")>>
                     ELSE <<Warning("rejected"), ErrorShown>>)
               ELSE <<>>]

\* performRebase(target, interactive), skipping the status check
PerformRebase_unchecked(target, interactive, status, warned, rebaseOk, result) ==
    /\ ReceiveMutating("performRebase")
    /\ IF ~rebaseOk
       THEN Served(<<ServiceCall("rebaseOnto", "rejected")>>,
                   <<>>, <<ErrorShown>>, shownCommits, currentBranch, branches)
       ELSE LET loaded == Loaded(currentBranch, shownAuthorFilter, messageFilter, result)
            IN  Served(<<ServiceCall("rebaseOnto", "resolved")>> \o loaded.calls,
                       loaded.posts \o <<Message("update", <<>>)>>,
                       <<InformationShown>>, loaded.commits, currentBranch, branches)

\* performRebase(target, interactive)
PerformRebase(target, interactive, status, warned, rebaseOk, result) ==
    /\ ReceiveMutating("performRebase")
    /\ IF status # "clean"
       THEN Served(StatusChecked(status, warned).calls, <<>>,
                   StatusChecked(status, warned).notes,
                   shownCommits, currentBranch, branches)
       ELSE IF ~rebaseOk
       THEN Served(StatusChecked(status, warned).calls
                      \o <<ServiceCall("rebaseOnto", "rejected")>>,
                   <<>>, <<ErrorShown>>, shownCommits, currentBranch, branches)
       ELSE LET loaded == Loaded(currentBranch, shownAuthorFilter, messageFilter, result)
            IN  Served(StatusChecked(status, warned).calls
                          \o <<ServiceCall("rebaseOnto", "resolved")>> \o loaded.calls,
                       loaded.posts \o <<Message("update", <<>>)>>,
                       <<InformationShown>>, loaded.commits, currentBranch, branches)

\* what branchExists(branchName) resolved with, or that it rejected
Exists(exists) == IF exists = "yes" THEN "true" ELSE IF exists = "no" THEN "false" ELSE "rejected"

\* createBranch(branchName, baseBranch, switchTo) creating whatever the answer
CreateBranch_unvalidated(branchName, baseBranch, switchTo, exists, createOk, branchesOk, result) ==
    /\ ReceiveMutating("createBranch")
    /\ IF exists = "rejected"
       THEN Served(<<ServiceCall("branchExists", Exists(exists))>>,
                   <<>>, <<ErrorShown>>, shownCommits, currentBranch, branches)
       ELSE IF ~createOk
       THEN Served(<<ServiceCall("branchExists", Exists(exists)),
                     ServiceCall("createBranch", "rejected")>>,
                   <<>>, <<ErrorShown>>, shownCommits, currentBranch, branches)
       ELSE IF ~branchesOk
       THEN Served(<<ServiceCall("branchExists", Exists(exists)),
                     ServiceCall("createBranch", "resolved"),
                     ServiceCall("getBranches", "rejected")>>,
                   <<>>, <<InformationShown, ErrorShown>>, shownCommits,
                   IF switchTo THEN branchName ELSE currentBranch, branches)
       ELSE LET loaded == IF switchTo
                          THEN Loaded(branchName, shownAuthorFilter, messageFilter, result)
                          ELSE [commits |-> shownCommits, calls |-> <<>>, posts |-> <<>>]
            IN  Served(<<ServiceCall("branchExists", Exists(exists)),
                         ServiceCall("createBranch", "resolved"),
                         ServiceCall("getBranches", "resolved")>> \o loaded.calls,
                       loaded.posts \o <<Message("update", <<>>)>>,
                       <<InformationShown>>, loaded.commits,
                       IF switchTo THEN branchName ELSE currentBranch,
                       <<"main", "dev", branchName>>)

\* createBranch(branchName, baseBranch, switchTo); `exists` is what
\* branchExists(branchName) comes to
CreateBranch(branchName, baseBranch, switchTo, exists, createOk, branchesOk, result) ==
    /\ ReceiveMutating("createBranch")
    /\ IF exists # "no"
       THEN Served(<<ServiceCall("branchExists", Exists(exists))>>,
                   <<>>, <<ErrorShown>>, shownCommits, currentBranch, branches)
       ELSE IF ~createOk
       THEN Served(<<ServiceCall("branchExists", Exists("no")),
                     ServiceCall("createBranch", "rejected")>>,
                   <<>>, <<ErrorShown>>, shownCommits, currentBranch, branches)
       ELSE IF ~branchesOk
       THEN Served(<<ServiceCall("branchExists", Exists("no")),
                     ServiceCall("createBranch", "resolved"),
                     ServiceCall("getBranches", "rejected")>>,
                   <<>>, <<InformationShown, ErrorShown>>, shownCommits,
                   IF switchTo THEN branchName ELSE currentBranch, branches)
       ELSE LET loaded == IF switchTo
                          THEN Loaded(branchName, shownAuthorFilter, messageFilter, result)
                          ELSE [commits |-> shownCommits, calls |-> <<>>, posts |-> <<>>]
            IN  Served(<<ServiceCall("branchExists", Exists("no")),
                         ServiceCall("createBranch", "resolved"),
                         ServiceCall("getBranches", "resolved")>> \o loaded.calls,
                       loaded.posts \o <<Message("update", <<>>)>>,
                       <<InformationShown>>, loaded.commits,
                       IF switchTo THEN branchName ELSE currentBranch,
                       <<"main", "dev", branchName>>)

\* deleteBranches(branches, deleteRemote), refreshing after a failed deletion too
DeleteBranches_refreshOnFailure(names, deleteRemote, deleteOk, branchesOk) ==
    /\ ReceiveMutating("deleteBranches")
    /\ IF ~branchesOk
       THEN Served(<<ServiceCall("deleteBranches", Outcome(deleteOk)),
                     ServiceCall("getBranches", "rejected")>>,
                   <<>>, <<IF deleteOk THEN InformationShown ELSE ErrorShown, ErrorShown>>,
                   shownCommits, currentBranch, branches)
       ELSE Served(<<ServiceCall("deleteBranches", Outcome(deleteOk)),
                     ServiceCall("getBranches", "resolved")>>,
                   <<Message("update", <<>>)>>,
                   <<IF deleteOk THEN InformationShown ELSE ErrorShown>>,
                   shownCommits, currentBranch, <<"main">>)

\* deleteBranches(branches, deleteRemote)
DeleteBranches(names, deleteRemote, deleteOk, branchesOk) ==
    /\ ReceiveMutating("deleteBranches")
    /\ IF ~deleteOk
       THEN Served(<<ServiceCall("deleteBranches", "rejected")>>, <<>>, <<ErrorShown>>,
                   shownCommits, currentBranch, branches)
       ELSE IF ~branchesOk
       THEN Served(<<ServiceCall("deleteBranches", "resolved"),
                     ServiceCall("getBranches", "rejected")>>,
                   <<>>, <<InformationShown, ErrorShown>>,
                   shownCommits, currentBranch, branches)
       ELSE Served(<<ServiceCall("deleteBranches", "resolved"),
                     ServiceCall("getBranches", "resolved")>>,
                   <<Message("update", <<>>)>>, <<InformationShown>>,
                   shownCommits, currentBranch, <<"main">>)

\* commits.length === 1 ? cherryPick(commits[0]) : cherryPickMultiple(commits)
PickCommand(commits) == IF Len(commits) = 1 THEN "cherryPick" ELSE "cherryPickMultiple"

\* performCherryPick(commits)
PerformCherryPick(commits, status, warned, pickOk, result) ==
    /\ ReceiveMutating("performCherryPick")
    /\ IF status # "clean"
       THEN Served(StatusChecked(status, warned).calls, <<>>,
                   StatusChecked(status, warned).notes,
                   shownCommits, currentBranch, branches)
       ELSE IF ~pickOk
       THEN Served(StatusChecked(status, warned).calls
                      \o <<ServiceCall(PickCommand(commits), "rejected")>>,
                   <<>>, <<ErrorShown>>, shownCommits, currentBranch, branches)
       ELSE LET loaded == Loaded(currentBranch, shownAuthorFilter, messageFilter, result)
            IN  Served(StatusChecked(status, warned).calls
                          \o <<ServiceCall(PickCommand(commits), "resolved")>>
                          \o loaded.calls,
                       loaded.posts \o <<Message("update", <<>>)>>,
                       <<InformationShown>>, loaded.commits, currentBranch, branches)

\* what the modal warning of resetToRemote can come to
DialogAnswers == {"confirm", "dismissed", "rejected"}

\* resetToRemote() resetting whatever the dialog returned
ResetToRemote_unconfirmed(answer, resetOk, result) ==
    /\ ReceiveMutating("resetToRemote")
    /\ IF answer = "rejected"
       THEN Served(<<>>, <<>>, <<Warning(answer), ErrorShown>>, shownCommits, currentBranch, branches)
       ELSE IF ~resetOk
       THEN Served(<<ServiceCall("resetToRemote", "rejected")>>, <<>>,
                   <<Warning(answer), ErrorShown>>, shownCommits, currentBranch, branches)
       ELSE LET loaded == Loaded(currentBranch, shownAuthorFilter, messageFilter, result)
            IN  Served(<<ServiceCall("resetToRemote", "resolved")>> \o loaded.calls,
                       loaded.posts \o <<Message("update", <<>>)>>,
                       <<Warning(answer), InformationShown>>,
                       loaded.commits, currentBranch, branches)

\* resetToRemote(): `answer` is what the modal warning came to
ResetToRemote(answer, resetOk, result) ==
    /\ ReceiveMutating("resetToRemote")
    /\ IF answer = "rejected"
       THEN Served(<<>>, <<>>, <<Warning(answer), ErrorShown>>, shownCommits, currentBranch, branches)
       ELSE IF answer = "dismissed"
       THEN Served(<<>>, <<>>, <<Warning(answer)>>, shownCommits, currentBranch, branches)
       ELSE IF ~resetOk
       THEN Served(<<ServiceCall("resetToRemote", "rejected")>>, <<>>,
                   <<Warning(answer), ErrorShown>>, shownCommits, currentBranch, branches)
       ELSE LET loaded == Loaded(currentBranch, shownAuthorFilter, messageFilter, result)
            IN  Served(<<ServiceCall("resetToRemote", "resolved")>> \o loaded.calls,
                       loaded.posts \o <<Message("update", <<>>)>>,
                       <<Warning(answer), InformationShown>>,
                       loaded.commits, currentBranch, branches)

NextHost ==
    \/ \E outcome \in {"repository", "none", "rejected"}, result \in LoadResults :
          InitializeData(outcome, result)
    \/ \E result \in LoadResults : FilterAuthor("al", result)
    \/ SelectCommit("h1")
    \/ \E message \in StashMessages, createOk, listOk \in BOOLEAN :
          CreateStash(message, createOk, listOk)
    \/ \E applyOk, listOk \in BOOLEAN, result \in LoadResults :
          ApplyStash(0, applyOk, listOk, result)
    \/ \E dropOk, listOk \in BOOLEAN : DropStash(0, dropOk, listOk)
    \/ \E status \in StatusOutcomes, warned, rebaseOk \in BOOLEAN, result \in LoadResults :
          PerformRebase("dev", FALSE, status, warned, rebaseOk, result)
    \/ \E switchTo, createOk, branchesOk \in BOOLEAN, exists \in {"yes", "no", "rejected"},
          result \in LoadResults :
          CreateBranch("topic", "main", switchTo, exists, createOk, branchesOk, result)
    \/ \E deleteOk, branchesOk \in BOOLEAN :
          DeleteBranches(<<"dev">>, FALSE, deleteOk, branchesOk)
    \/ \E commits \in {<<"h1">>, <<"h1", "h2">>}, status \in StatusOutcomes,
          warned, pickOk \in BOOLEAN, result \in LoadResults :
          PerformCherryPick(commits, status, warned, pickOk, result)
    \/ \E answer \in DialogAnswers, resetOk \in BOOLEAN, result \in LoadResults :
          ResetToRemote(answer, resetOk, result)

InitHost ==
    /\ git = TRUE
    /\ repoLocal = NoRef
    /\ repoRemote = NoRef
    /\ pc = "idle"
    /\ branchOrTag = ""
    /\ refToQuery = ""
    /\ useRemote = FALSE
    /\ localCommit = ""
    /\ remoteCommit = ""
    /\ mergeBase = <<>>
    /\ localAhead = <<>>
    /\ remoteAhead = <<>>
    /\ calls = <<>>
    /\ thrown = "none"
    /\ listing = <<>>
    /\ filterCall = NoFilterCall
    /\ dpc = "idle"
    /\ fromCommits = <<>>
    /\ toCommits = <<>>
    /\ difference = NoDifference
    /\ previous = <<>>
    /\ comparisonContent = <<>>
    /\ provider = "part_006"
    /\ lastCompareFrom = ""
    /\ lastCompareTo = ""
    /\ cpc = "idle"
    /\ compareArgs = NoCompareArgs
    /\ compareLogs = <<>>
    /\ finalFromCommits = <<>>
    /\ finalToCommits = <<>>
    /\ currentBranch = ""
    /\ branches = <<>>
    /\ shownCommits = <<>>
    /\ shownAuthorFilter = ""
    /\ messageFilter = ""
    /\ selectedCommits = {}
    /\ branchSearchQuery = ""
    /\ requests = <<>>
    /\ serviceCalls = <<>>
    /\ posted = <<>>
    /\ notified = <<>>
    /\ before = NoFields
    /\ userInputCallbacks = <<>>
    /\ now = 0
    /\ scriptLog = <<>>
    /\ answered = {}
    /\ toScript = <<>>
    /\ selectedDeleteBranches = <<>>
    /\ currentData = NoData
    /\ appActions = <<>>
    /\ invoked = <<>>
    /\ isCompareMode = FALSE
    /\ compareInfo = NoCompareInfo
    /\ loading = <<>>

SpecHost == InitHost /\ [][NextHost]_vars

\* ------------------- requests of part_006 whose loads overlap one another
\* the commits git lists for a branch
CommitsOf(branch) ==
    IF branch = "dev"
    THEN <<[hash |-> "h2", message |-> MessageFix, author |-> AuthorAlice,
            date |-> "2024-01-02"]>>
    ELSE LoadedCommits

\* what the git call of loadCommits can come to for a branch
ResultsFor(branch) ==
    {[ok |-> TRUE, value |-> CommitsOf(branch)], [ok |-> FALSE, value |-> <<>>]}

\* a loadCommits call waiting for its git call: the request it serves and the
\* fields it read before the await
Load(request, branch, authorFilter, message) ==
    [request |-> request, branch |-> branch, authorFilter |-> authorFilter,
     message |-> message]

\* switchBranch(branchName) up to the await of loadCommits: the branch is set,
\* isCompareMode cleared and the git call started with this.currentBranch;
\* onDidReceiveMessage dispatches further messages while the call is pending
BeginSwitchBranch(branchName) ==
    /\ Receive("switchBranch", "", "")
    /\ currentBranch' = branchName
    /\ isCompareMode' = FALSE
    /\ loading' = Append(loading, Load(Len(requests) + 1, branchName, shownAuthorFilter,
                                       messageFilter))
    /\ serviceCalls' = <<>>
    /\ posted' = <<>>
    /\ notified' = <<>>
    /\ UNCHANGED <<branches, shownCommits, shownAuthorFilter, messageFilter,
                   selectedCommits, branchSearchQuery, compareInfo>>
    /\ UNCHANGED <<resolveVars, divergenceVars, compareVars, scriptVars>>

\* a pending git call settles, in whatever order git finishes: this.commits
\* takes the list of the branch the call was started for, or the catch runs,
\* and switchBranch goes on to updateWebview()
FinishLoad(position, ok) ==
    /\ position \in DOMAIN loading
    /\ LET load == loading[position]
           loaded == LoadedIn(FALSE, compareInfo, load.branch, load.authorFilter,
                              load.message,
                              [ok |-> ok, value |-> IF ok THEN CommitsOf(load.branch)
                                                    ELSE <<>>])
       IN  /\ shownCommits' = loaded.commits
           /\ serviceCalls' = loaded.calls
           /\ posted' = loaded.posts \o <<Message("update", <<>>)>>
           /\ notified' = <<>>
    /\ loading' = [i \in 1..(Len(loading) - 1) |->
                      IF i < position THEN loading[i] ELSE loading[i + 1]]
    /\ UNCHANGED <<currentBranch, branches, shownAuthorFilter, messageFilter,
                   selectedCommits, branchSearchQuery, requests, before, isCompareMode,
                   compareInfo>>
    /\ UNCHANGED <<resolveVars, divergenceVars, compareVars, scriptVars>>

NextLoads ==
    \/ \E outcome \in {"repository", "none", "rejected"}, result \in ResultsFor("main") :
          InitializeData(outcome, result)
    \/ \E branchName \in Names : BeginSwitchBranch(branchName)
    \/ \E position \in 1..MaxRequests, ok \in BOOLEAN : FinishLoad(position, ok)
    \/ \E result \in ResultsFor(currentBranch) : FilterAuthor("al", result)
    \/ \E result \in ResultsFor(currentBranch) : ClearFilters(result)
    \/ \E from, to \in Names :
          ReceiveCompareBranches(from, to, FALSE, NoFilter, LoadedCommits, LoadedCommits)
    \/ \E result \in ResultsFor(currentBranch) : ExitCompareMode(result)

SpecLoads == InitHost /\ [][NextLoads]_vars

\* ------------------------------------------- the panel script of part_006
MaxClicks == 2
MaxClock == 1

\* what a pending callback will post once it is called with a truthy result
Callback(action, index, deleteRemote) ==
    [action |-> action, index |-> index, deleteRemote |-> deleteRemote]

NoCallback == Callback("", 0, FALSE)

Event(dir, type, callback, result, payload, names) ==
    [dir |-> dir, type |-> type, callback |-> callback, result |-> result,
     payload |-> payload, branches |-> names]

\* vscode.postMessage({type: 'requestUserInput', inputType: 'confirm', ...})
ConfirmRequested(callbackId) ==
    Event("post", "requestUserInput", callbackId, "confirm", NoCallback, <<>>)

\* the 'userInputResponse' message as the window listener gets it
ResponseReceived(callbackId, result) ==
    Event("receive", "userInputResponse", callbackId, result, NoCallback, <<>>)

UserClicks == {i \in DOMAIN scriptLog : scriptLog[i].type = "requestUserInput"}

\* Date.now() moves on between two events, or does not
Tick ==
    /\ now < MaxClock
    /\ now' = now + 1
    /\ UNCHANGED <<userInputCallbacks, scriptLog, answered, toScript, selectedDeleteBranches,
                   currentData, appActions, invoked>>
    /\ UNCHANGED <<resolveVars, divergenceVars, compareVars, viewVars, modeVars>>

\* requestUserInput('confirm', prompt, callback) as confirmAction calls it
RequestUserInput(callback) ==
    LET callbackId == ToString(now)
    IN  /\ Cardinality(UserClicks) < MaxClicks
        /\ userInputCallbacks' = (callbackId :> callback) @@ userInputCallbacks
        /\ scriptLog' = Append(scriptLog, ConfirmRequested(callbackId))
        /\ UNCHANGED <<now, answered, toScript, selectedDeleteBranches, currentData,
                       appActions, invoked>>
        /\ UNCHANGED <<resolveVars, divergenceVars, compareVars, viewVars, modeVars>>

\* the change handler of a checkbox of the delete dialog
ToggleDeleteBranch(branchName) ==
    /\ selectedDeleteBranches' =
          IF \E i \in DOMAIN selectedDeleteBranches : selectedDeleteBranches[i] = branchName
          THEN SelectSeq(selectedDeleteBranches, LAMBDA b : b # branchName)
          ELSE Append(selectedDeleteBranches, branchName)
    /\ UNCHANGED <<userInputCallbacks, now, scriptLog, answered, toScript, currentData,
                   appActions, invoked>>
    /\ UNCHANGED <<resolveVars, divergenceVars, compareVars, viewVars, modeVars>>

\* function resetToRemote()
ClickResetToRemote == RequestUserInput(Callback("resetToRemote", 0, FALSE))

\* function dropStash(index)
ClickDropStash(index) == RequestUserInput(Callback("dropStash", index, FALSE))

\* function performDeleteBranches(): nothing but an alert without a selection
PerformDeleteBranches(deleteRemote) ==
    /\ selectedDeleteBranches # <<>>
    /\ RequestUserInput(Callback("deleteBranches", 0, deleteRemote))

\* handleUserInputRequest('confirm', prompt, callback) in the host, for a
\* request the panel posted: the modal warning is confirmed, dismissed or
\* rejects, and the response goes out with true, false or null
HandleUserInputRequest(position, answer) ==
    /\ position \in UserClicks \ answered
    /\ answered' = answered \cup {position}
    /\ toScript' = Append(toScript,
                          [request |-> position,
                           callback |-> scriptLog[position].callback,
                           result |-> IF answer = "confirm" THEN "true"
                                      ELSE IF answer = "dismissed" THEN "false"
                                      ELSE "null"])
    /\ UNCHANGED <<userInputCallbacks, now, scriptLog, selectedDeleteBranches, currentData,
                   appActions, invoked>>
    /\ UNCHANGED <<resolveVars, divergenceVars, compareVars, viewVars, modeVars>>

\* the callbacks of resetToRemote, dropStash and performDeleteBranches
\* posting whatever the result
CallbackPosts_unconditional(callback, result) ==
    <<Event("post", callback.action, "", "", callback,
            IF callback.action = "deleteBranches" THEN selectedDeleteBranches ELSE <<>>)>>

\* the callbacks of resetToRemote, dropStash and performDeleteBranches:
\* if (confirmed) vscode.postMessage(...), the selection read at that moment
CallbackPosts(callback, result) ==
    IF result = "true"
    THEN <<Event("post", callback.action, "", "", callback,
                 IF callback.action = "deleteBranches" THEN selectedDeleteBranches ELSE <<>>)>>
    ELSE <<>>

\* the request whose callback is filed under the id: an assignment to
\* userInputCallbacks[callbackId] replaces the callback of an earlier request
Owner(callbackId) ==
    CHOOSE p \in UserClicks :
        /\ scriptLog[p].callback = callbackId
        /\ \A q \in UserClicks : scriptLog[q].callback = callbackId => q <= p

\* a callback was called: of which request it was, and the request and result
\* of the response it was called with
Invoked(owner, response) ==
    [owner |-> owner, request |-> response.request, result |-> response.result]

\* case 'userInputResponse': handleUserInputResponse(message.callback,
\* message.result) calls the callback filed under the id, if any, and drops it
HandleUserInputResponse ==
    /\ toScript # <<>>
    /\ LET response == Head(toScript)
           received == ResponseReceived(response.callback, response.result)
       IN  IF response.callback \in DOMAIN userInputCallbacks
           THEN /\ scriptLog' = Append(scriptLog, received)
                                  \o CallbackPosts(userInputCallbacks[response.callback],
                                                   response.result)
                /\ userInputCallbacks' =
                      [id \in DOMAIN userInputCallbacks \ {response.callback}
                          |-> userInputCallbacks[id]]
                /\ invoked' = Append(invoked, Invoked(Owner(response.callback), response))
           ELSE /\ scriptLog' = Append(scriptLog, received)
                /\ UNCHANGED <<userInputCallbacks, invoked>>
    /\ toScript' = Tail(toScript)
    /\ UNCHANGED <<now, answered, selectedDeleteBranches, currentData, appActions>>
    /\ UNCHANGED <<resolveVars, divergenceVars, compareVars, viewVars, modeVars>>

NextScript ==
    \/ Tick
    \/ ToggleDeleteBranch("dev")
    \/ ClickResetToRemote
    \/ \E index \in {0, 1} : ClickDropStash(index)
    \/ \E deleteRemote \in BOOLEAN : PerformDeleteBranches(deleteRemote)
    \/ \E position \in DOMAIN scriptLog, answer \in DialogAnswers :
          HandleUserInputRequest(position, answer)
    \/ HandleUserInputResponse

InitScript ==
    /\ git = TRUE
    /\ repoLocal = NoRef
    /\ repoRemote = NoRef
    /\ pc = "idle"
    /\ branchOrTag = ""
    /\ refToQuery = ""
    /\ useRemote = FALSE
    /\ localCommit = ""
    /\ remoteCommit = ""
    /\ mergeBase = <<>>
    /\ localAhead = <<>>
    /\ remoteAhead = <<>>
    /\ calls = <<>>
    /\ thrown = "none"
    /\ listing = <<>>
    /\ filterCall = NoFilterCall
    /\ dpc = "idle"
    /\ fromCommits = <<>>
    /\ toCommits = <<>>
    /\ difference = NoDifference
    /\ previous = <<>>
    /\ comparisonContent = <<>>
    /\ provider = "part_006"
    /\ lastCompareFrom = ""
    /\ lastCompareTo = ""
    /\ cpc = "idle"
    /\ compareArgs = NoCompareArgs
    /\ compareLogs = <<>>
    /\ finalFromCommits = <<>>
    /\ finalToCommits = <<>>
    /\ currentBranch = ""
    /\ branches = <<>>
    /\ shownCommits = <<>>
    /\ shownAuthorFilter = ""
    /\ messageFilter = ""
    /\ selectedCommits = {}
    /\ branchSearchQuery = ""
    /\ requests = <<>>
    /\ serviceCalls = <<>>
    /\ posted = <<>>
    /\ notified = <<>>
    /\ before = NoFields
    /\ userInputCallbacks = <<>>
    /\ now = 0
    /\ scriptLog = <<>>
    /\ answered = {}
    /\ toScript = <<>>
    /\ selectedDeleteBranches = <<>>
    /\ currentData = NoData
    /\ appActions = <<>>
    /\ invoked = <<>>
    /\ isCompareMode = FALSE
    /\ compareInfo = NoCompareInfo
    /\ loading = <<>>

SpecScript == InitScript /\ [][NextScript]_vars

\* every dialog the host opened is settled and every message posted to the
\* panel is delivered
FairSpecScript ==
    /\ SpecScript
    /\ WF_vars(\E position \in DOMAIN scriptLog, answer \in DialogAnswers :
                  HandleUserInputRequest(position, answer))
    /\ WF_vars(HandleUserInputResponse)

\* --------------------------------------------- renderApp of the panel script
BranchTypes == {"local", "remote"}

BranchNames == {"main", "dev"}

TagNames == {"v1"}

Branch(name, type) == [name |-> name, type |-> type]

\* branch lists as getBranches builds them: no name twice, at most MaxBranches
MaxBranches == 2

BranchLists ==
    {list \in UNION {[1..n -> {Branch(name, type) : name \in BranchNames, type \in BranchTypes}]
                        : n \in 0..MaxBranches} :
        \A a, b \in DOMAIN list : a # b => list[a].name # list[b].name}

\* the data of an 'update' message as updateWebview() fills it
UpdateData ==
    {[initialized |-> TRUE, branches |-> list, tags |-> tags, currentBranch |-> name,
      authorFilter |-> authorFilter, messageFilter |-> "", isCompareMode |-> FALSE] :
        list \in BranchLists, tags \in {<<>>, <<"v1">>},
        name \in {""} \cup BranchNames \cup TagNames, authorFilter \in {"", "al"}}

\* branches.find(b => b.name === currentBranch): position of the first match, or 0
RECURSIVE Find(_, _, _)
Find(list, name, i) ==
    IF i > Len(list) THEN 0 ELSE IF list[i].name = name THEN i ELSE Find(list, name, i + 1)

\* isLocalBranch() taking any listed branch for a local one
IsLocalBranch_anyType(data) ==
    IF data.branches = <<>> \/ data.currentBranch = "" THEN FALSE
    ELSE Find(data.branches, data.currentBranch, 1) # 0

\* isLocalBranch()
IsLocalBranch(data) ==
    IF data.branches = <<>> \/ data.currentBranch = "" THEN FALSE
    ELSE LET found == Find(data.branches, data.currentBranch, 1)
         IN  found # 0 /\ data.branches[found].type = "local"

AdvancedActions ==
    <<"showStashManager", "showRebaseModal", "showCherryPickModal",
      "showCreateBranchModal", "resetToRemote", "showDeleteBranchModal">>

\* the data-action controls of the markup renderApp() builds, in order
RenderApp(data) ==
    IF ~data.initialized \/ data.branches = <<>> THEN <<>>
    ELSE <<"toggleBranchDropdown", "refreshRemote", "showCompareModal">>
         \o (IF data.authorFilter # "" \/ data.messageFilter # ""
             THEN <<"clearFilters">> ELSE <<>>)
         \o (IF IsLocalBranch(data)
             THEN <<"toggleAdvancedFunctions">> \o AdvancedActions ELSE <<>>)
         \o (IF data.isCompareMode THEN <<"exitCompareMode">> ELSE <<>>)

\* case 'update': currentData = message.data; renderApp();
ReceiveUpdate(data) ==
    /\ currentData' = data
    /\ appActions' = RenderApp(data)
    /\ UNCHANGED <<userInputCallbacks, now, scriptLog, answered, toScript,
                   selectedDeleteBranches, invoked>>
    /\ UNCHANGED <<resolveVars, divergenceVars, compareVars, viewVars, modeVars>>

NextRender == \E data \in UpdateData : ReceiveUpdate(data)

InitRender ==
    /\ git = TRUE
    /\ repoLocal = NoRef
    /\ repoRemote = NoRef
    /\ pc = "idle"
    /\ branchOrTag = ""
    /\ refToQuery = ""
    /\ useRemote = FALSE
    /\ localCommit = ""
    /\ remoteCommit = ""
    /\ mergeBase = <<>>
    /\ localAhead = <<>>
    /\ remoteAhead = <<>>
    /\ calls = <<>>
    /\ thrown = "none"
    /\ listing = <<>>
    /\ filterCall = NoFilterCall
    /\ dpc = "idle"
    /\ fromCommits = <<>>
    /\ toCommits = <<>>
    /\ difference = NoDifference
    /\ previous = <<>>
    /\ comparisonContent = <<>>
    /\ provider = "part_006"
    /\ lastCompareFrom = ""
    /\ lastCompareTo = ""
    /\ cpc = "idle"
    /\ compareArgs = NoCompareArgs
    /\ compareLogs = <<>>
    /\ finalFromCommits = <<>>
    /\ finalToCommits = <<>>
    /\ currentBranch = ""
    /\ branches = <<>>
    /\ shownCommits = <<>>
    /\ shownAuthorFilter = ""
    /\ messageFilter = ""
    /\ selectedCommits = {}
    /\ branchSearchQuery = ""
    /\ requests = <<>>
    /\ serviceCalls = <<>>
    /\ posted = <<>>
    /\ notified = <<>>
    /\ before = NoFields
    /\ userInputCallbacks = <<>>
    /\ now = 0
    /\ scriptLog = <<>>
    /\ answered = {}
    /\ toScript = <<>>
    /\ selectedDeleteBranches = <<>>
    /\ currentData = NoData
    /\ appActions = <<>>
    /\ invoked = <<>>
    /\ isCompareMode = FALSE
    /\ compareInfo = NoCompareInfo
    /\ loading = <<>>

SpecRender == InitRender /\ [][NextRender]_vars

\* ------------------------------------------------ GitService.filterCommits
\* logs git can list for a ref: no hash twice
RawLogs ==
    {log \in UNION {[1..n -> {RawAl(h) : h \in Hashes} \cup {RawBo(h) : h \in Hashes}]
                       : n \in 0..(MaxCommits + 1)} :
        \A a, b \in DOMAIN log : a # b => log[a].hash # log[b].hash}

FilterTexts == {<<>>, <<"a", "L">>, <<"@", "X">>, <<"O">>}

\* logResult.all.map(...) of filterCommits
FilterableCommits(log) ==
    [i \in DOMAIN log |->
        [hash |-> log[i].hash, date |-> log[i].date, message |-> log[i].message,
         author |-> log[i].author_name, email |-> log[i].author_email]]

\* the author filter looking at the name only
AuthorFiltered_nameOnly(commits, authorFilter) ==
    IF authorFilter # <<>>
    THEN SelectSeq(commits, LAMBDA commit :
            Includes(ToLowerCase(commit.author), ToLowerCase(authorFilter)))
    ELSE commits

\* if (authorFilter) filteredCommits = filteredCommits.filter(...)
AuthorFiltered(commits, authorFilter) ==
    IF authorFilter # <<>>
    THEN SelectSeq(commits, LAMBDA commit :
            \/ Includes(ToLowerCase(commit.author), ToLowerCase(authorFilter))
            \/ Includes(ToLowerCase(commit.email), ToLowerCase(authorFilter)))
    ELSE commits

\* if (messageFilter) filteredCommits = filteredCommits.filter(...)
MessageFiltered(commits, message) ==
    IF message # <<>>
    THEN SelectSeq(commits, LAMBDA commit :
            Includes(ToLowerCase(commit.message), ToLowerCase(message)))
    ELSE commits

\* filterCommits(branchOrTag, authorFilter, messageFilter, maxCount) where
\* refLog is what git lists for the name: the first maxCount entries are
\* filtered, or the call rejects without git or when git.log rejects
FilterCommits(ref, authorFilter, message, maxCount, refLog, ok) ==
    /\ calls' = IF git THEN Append(calls, Call("log", ref, ok)) ELSE calls
    /\ filterCall' =
          [ref |-> ref, authorFilter |-> authorFilter, messageFilter |-> message,
           maxCount |-> maxCount, log |-> refLog,
           outcome |-> IF git /\ ok THEN "resolved" ELSE "rejected",
           commits |-> IF git /\ ok
                       THEN MessageFiltered(
                               AuthorFiltered(FilterableCommits(Take(refLog, maxCount)),
                                              authorFilter),
                               message)
                       ELSE <<>>]
    /\ UNCHANGED <<listing, git, repoLocal, repoRemote, pc, branchOrTag, refToQuery,
                   useRemote, localCommit, remoteCommit, mergeBase, localAhead,
                   remoteAhead, thrown>>
    /\ UNCHANGED divergenceVars
    /\ UNCHANGED <<compareVars, viewVars, scriptVars, modeVars>>

NextFilter ==
    /\ filterCall.outcome = "none"
    /\ \E authorFilter \in FilterTexts, message \in FilterTexts, maxCount \in 1..MaxCommits,
          refLog \in RawLogs, ok \in BOOLEAN :
           FilterCommits("main", authorFilter, message, maxCount, refLog, ok)

InitFilter ==
    /\ git \in BOOLEAN
    /\ repoLocal = NoRef
    /\ repoRemote = NoRef
    /\ pc = "idle"
    /\ branchOrTag = ""
    /\ refToQuery = ""
    /\ useRemote = FALSE
    /\ localCommit = ""
    /\ remoteCommit = ""
    /\ mergeBase = <<>>
    /\ localAhead = <<>>
    /\ remoteAhead = <<>>
    /\ calls = <<>>
    /\ thrown = "none"
    /\ listing = <<>>
    /\ filterCall = NoFilterCall
    /\ dpc = "idle"
    /\ fromCommits = <<>>
    /\ toCommits = <<>>
    /\ difference = NoDifference
    /\ previous = <<>>
    /\ comparisonContent = <<>>
    /\ provider = "webviewProvider.ts"
    /\ lastCompareFrom = ""
    /\ lastCompareTo = ""
    /\ cpc = "idle"
    /\ compareArgs = NoCompareArgs
    /\ compareLogs = <<>>
    /\ finalFromCommits = <<>>
    /\ finalToCommits = <<>>
    /\ currentBranch = ""
    /\ branches = <<>>
    /\ shownCommits = <<>>
    /\ shownAuthorFilter = ""
    /\ messageFilter = ""
    /\ selectedCommits = {}
    /\ branchSearchQuery = ""
    /\ requests = <<>>
    /\ serviceCalls = <<>>
    /\ posted = <<>>
    /\ notified = <<>>
    /\ before = NoFields
    /\ userInputCallbacks = <<>>
    /\ now = 0
    /\ scriptLog = <<>>
    /\ answered = {}
    /\ toScript = <<>>
    /\ selectedDeleteBranches = <<>>
    /\ currentData = NoData
    /\ appActions = <<>>
    /\ invoked = <<>>
    /\ isCompareMode = FALSE
    /\ compareInfo = NoCompareInfo
    /\ loading = <<>>

SpecFilter == InitFilter /\ [][NextFilter]_vars

NextResolve ==
    \/ \E name \in Names : GetCommits(name)
    \/ RevparseRemoteExists
    \/ RevparseLocalExists
    \/ RevparseLocalCommit
    \/ RevparseRemoteCommit
    \/ MergeBase
    \/ RevListLocal
    \/ RevListRemote
    \/ RevparseLocalFallback
    \/ GitLog

\* a constructed GitService over some repository, no request made yet
InitResolve ==
    /\ git \in BOOLEAN
    /\ repoLocal \in CommitIds \cup {NoRef}
    /\ repoRemote \in CommitIds \cup {NoRef}
    /\ pc = "idle"
    /\ branchOrTag = ""
    /\ refToQuery = ""
    /\ useRemote = FALSE
    /\ localCommit = ""
    /\ remoteCommit = ""
    /\ mergeBase = <<>>
    /\ localAhead = <<>>
    /\ remoteAhead = <<>>
    /\ calls = <<>>
    /\ thrown = "none"
    /\ listing = <<>>
    /\ filterCall = NoFilterCall
    /\ dpc = "idle"
    /\ fromCommits = <<>>
    /\ toCommits = <<>>
    /\ difference = NoDifference
    /\ previous = <<>>
    /\ comparisonContent = <<>>
    /\ provider = "webviewProvider.ts"
    /\ lastCompareFrom = ""
    /\ lastCompareTo = ""
    /\ cpc = "idle"
    /\ compareArgs = NoCompareArgs
    /\ compareLogs = <<>>
    /\ finalFromCommits = <<>>
    /\ finalToCommits = <<>>
    /\ currentBranch = ""
    /\ branches = <<>>
    /\ shownCommits = <<>>
    /\ shownAuthorFilter = ""
    /\ messageFilter = ""
    /\ selectedCommits = {}
    /\ branchSearchQuery = ""
    /\ requests = <<>>
    /\ serviceCalls = <<>>
    /\ posted = <<>>
    /\ notified = <<>>
    /\ before = NoFields
    /\ userInputCallbacks = <<>>
    /\ now = 0
    /\ scriptLog = <<>>
    /\ answered = {}
    /\ toScript = <<>>
    /\ selectedDeleteBranches = <<>>
    /\ currentData = NoData
    /\ appActions = <<>>
    /\ invoked = <<>>
    /\ isCompareMode = FALSE
    /\ compareInfo = NoCompareInfo
    /\ loading = <<>>

SpecResolve == InitResolve /\ [][NextResolve]_vars

FairSpecResolve == SpecResolve /\ WF_vars(NextResolve)

\* ------------------- a branch listed without and then with a filter active
\* the filters loadCommits hands to filterCommits: one of the two is set
LoadFilters ==
    {f \in {<<>>, <<"@">>} \X {<<>>, <<"f", "i", "x">>} : f[1] # <<>> \/ f[2] # <<>>}

\* loadCommits() with a filter set, for the branch getCommits listed before:
\* filterCommits(this.currentBranch, authorFilter, messageFilter) hands the
\* name to git.log as it is given
FilterListedBranch(authorFilter, message, ok) ==
    /\ pc = "returned"
    /\ filterCall.outcome = "none"
    /\ FilterCommits(branchOrTag, authorFilter, message, DefaultMaxCount,
                     RefLog(branchOrTag), ok)

NextListing ==
    \/ NextResolve
    \/ \E f \in LoadFilters, ok \in BOOLEAN : FilterListedBranch(f[1], f[2], ok)

SpecListing == InitResolve /\ [][NextListing]_vars

\* ------------------------------------------------ ref resolution: claims
ResolutionDone == pc \in {"L310", "returned"} \/ (pc = "failed" /\ thrown = "log")

OkCalls(cmd) == {i \in DOMAIN calls : calls[i].cmd = cmd /\ calls[i].ok}
FailedCalls(cmd) == {i \in DOMAIN calls : calls[i].cmd = cmd /\ ~calls[i].ok}

PicksRemote == refToQuery = RemoteRef(branchOrTag) /\ useRemote
PicksLocal == refToQuery = branchOrTag /\ ~useRemote

\* the count a raw rev-list output stands for is positive
PositiveCount(out) == ~ParseInt(Trim(out)).nan /\ ParseInt(Trim(out)).val > 0

BothResolved == Cardinality(OkCalls("rev-parse")) = 4
CountsSucceeded == OkCalls("merge-base") # {} /\ Cardinality(OkCalls("rev-list")) = 2
CompareFailed == FailedCalls("merge-base") # {} \/ FailedCalls("rev-list") # {}

\* C1: both refs resolve to different commits and merge-base and both counts
\* succeed: remoteAhead > 0 picks origin/<name> whatever localAhead is, else
\* localAhead > 0 picks <name>, else (no positive count, NaN included)
\* origin/<name> is picked.
C1_AheadTieBreak ==
    (ResolutionDone /\ BothResolved /\ localCommit # remoteCommit /\ CountsSucceeded)
    => IF PositiveCount(remoteAhead) THEN PicksRemote
       ELSE IF PositiveCount(localAhead) THEN PicksLocal
       ELSE PicksRemote

C1_Witness ==
    /\ pc = "L310" /\ CountsSucceeded
    /\ PositiveCount(remoteAhead) /\ PositiveCount(localAhead)
    /\ PicksRemote

\* C2: both refs resolve to the same commit id: origin/<name> is picked with
\* usedRemote = true and neither merge-base nor rev-list was called.
C2_SameCommitPrefersRemote ==
    (ResolutionDone /\ BothResolved /\ localCommit = remoteCommit)
    => /\ PicksRemote
       /\ \A i \in DOMAIN calls : calls[i].cmd \notin {"merge-base", "rev-list"}

C2_Witness ==
    /\ pc = "L310" /\ BothResolved /\ localCommit = remoteCommit
    /\ localCommit \in CommitIds /\ PicksRemote

\* C3: origin/<name> resolves and the local <name> does not: origin/<name> is
\* picked with usedRemote = true.
C3_RemoteOnly ==
    (/\ ResolutionDone
     /\ calls[1] = Call("rev-parse", RemoteRef(branchOrTag), TRUE)
     /\ \E i \in DOMAIN calls : calls[i] = Call("rev-parse", branchOrTag, FALSE))
    => PicksRemote

C3_Witness ==
    /\ pc = "L310" /\ repoLocal = NoRef /\ repoRemote \in CommitIds
    /\ calls = <<Call("rev-parse", RemoteRef(branchOrTag), TRUE),
                 Call("rev-parse", branchOrTag, FALSE)>>
    /\ PicksRemote

\* C4: origin/<name> does not resolve: the name is returned unchanged with
\* usedRemote = false, whether or not the local <name> resolves, and it is that
\* name that goes to the commit listing.
C4_NoRemoteKeepsName ==
    (ResolutionDone /\ calls[1] = Call("rev-parse", RemoteRef(branchOrTag), FALSE))
    => /\ PicksLocal
       /\ \A i \in DOMAIN calls : calls[i].cmd = "log" => calls[i].arg = branchOrTag

C4_Witness ==
    /\ pc = "returned" /\ repoLocal = NoRef /\ repoRemote = NoRef
    /\ calls = <<Call("rev-parse", RemoteRef(branchOrTag), FALSE),
                 Call("rev-parse", branchOrTag, FALSE),
                 Call("log", branchOrTag, TRUE)>>
    /\ PicksLocal

\* C5: both refs resolve to different commits and a comparison call
\* (merge-base or a rev-list count) fails: the resolving remote ref is picked,
\* and the picked ref is never one whose rev-parse failed.
C5_CompareFailureFallsBackToRemote ==
    (ResolutionDone /\ BothResolved /\ localCommit # remoteCommit /\ CompareFailed)
    => /\ PicksRemote
       /\ \A i \in FailedCalls("rev-parse") : calls[i].arg # refToQuery

C5_Witness ==
    /\ pc = "L310" /\ BothResolved /\ localCommit # remoteCommit
    /\ FailedCalls("merge-base") # {} /\ PicksRemote

HookCalls == {i \in DOMAIN calls : calls[i].cmd # "log"}

\* C6: whatever succeeds or fails among rev-parse, merge-base and rev-list,
\* the resolution reaches its end with a queryRef and a usedRemote flag, no
\* hook failure makes getCommits reject, and when every hook fails the result
\* is the name unchanged with usedRemote = false.
C6_ResolutionTotal ==
    /\ [](thrown # "hook")
    /\ [](pc = "L244" => <>(pc = "L310"))
    /\ [](ResolutionDone => (PicksRemote \/ PicksLocal))
    /\ []((ResolutionDone /\ \A i \in HookCalls : ~calls[i].ok) => PicksLocal)

C6_Witness ==
    /\ pc = "L310" /\ FailedCalls("rev-list") # {} /\ thrown = "none"
    /\ PicksRemote

\* ---------------------------------------------- branch difference: claims
HashesOf(commits) == {commits[i].hash : i \in DOMAIN commits}
SetOf(seq) == {seq[i] : i \in DOMAIN seq}
HashSeq(commits) == [i \in DOMAIN commits |-> commits[i].hash]

Computed == dpc \in {"done", "again"}

\* the commits of the two lists that carry hash h have the same message
Unchanged(h) ==
    \A i \in DOMAIN fromCommits, j \in DOMAIN toCommits :
        (fromCommits[i].hash = h /\ toCommits[j].hash = h)
        => fromCommits[i].message = toCommits[j].message

\* out lists its hashes in the order in which commits lists them
TracksOrder(out, commits) ==
    LET Listed(h) == h \in HashesOf(out)
    IN  HashSeq(out) = SelectSeq(HashSeq(commits), Listed)

C8_DisjointParts ==
    Computed =>
        /\ HashesOf(difference.onlyInFrom) \cap HashesOf(difference.onlyInTo) = {}
        /\ \A h \in HashesOf(difference.different) :
              /\ h \in HashesOf(fromCommits) /\ h \in HashesOf(toCommits)
              /\ h \notin HashesOf(difference.onlyInFrom)
              /\ h \notin HashesOf(difference.onlyInTo)

C8_Witness ==
    /\ dpc = "done"
    /\ Len(difference.onlyInFrom) = 1
    /\ Len(difference.onlyInTo) = 1
    /\ Len(difference.different) = 1

Swapped ==
    /\ dpc = "again"
    /\ fromCommits = previous[1].toCommits
    /\ toCommits = previous[1].fromCommits

Reordered ==
    /\ dpc = "again"
    /\ fromCommits \in Reorderings(previous[1].fromCommits)
    /\ toCommits \in Reorderings(previous[1].toCommits)

C10_OrderIndependence ==
    /\ Reordered =>
          /\ SetOf(difference.onlyInFrom) = SetOf(previous[1].difference.onlyInFrom)
          /\ SetOf(difference.onlyInTo) = SetOf(previous[1].difference.onlyInTo)
          /\ SetOf(difference.different) = SetOf(previous[1].difference.different)
    /\ Computed =>
          /\ TracksOrder(difference.onlyInFrom, fromCommits)
          /\ TracksOrder(difference.different, fromCommits)
          /\ TracksOrder(difference.onlyInTo, toCommits)

C10_Witness ==
    /\ Reordered
    /\ fromCommits # previous[1].fromCommits
    /\ HashSeq(toCommits) # HashSeq(fromCommits)
    /\ Len(difference.different) = 2

MessagesOf(commits) == {commits[i].message : i \in DOMAIN commits}

\* the author contains the filter, letter case aside
ContainsIgnoringCase(author, filter) ==
    \E i \in 1..(Len(author) - Len(filter) + 1) :
        \A k \in 1..Len(filter) : LowerChar(author[i + k - 1]) = LowerChar(filter[k])

AuthorMatching(commits, filter) ==
    LET Keep(commit) == ContainsIgnoringCase(commit.author, filter)
    IN  SelectSeq(commits, Keep)

\* C13: with hideIdentical the view gets, of each (author-filtered) list and
\* in its order, exactly the commits whose message string is not a message of
\* the other list, so no message is common to the two shown lists; without
\* hideIdentical no commit is removed for its message.
C13_HideIdenticalByMessage ==
    cpc = "shown" =>
        LET from == AuthorMatching(compareLogs[1], compareArgs.authorFilter)
            to == AuthorMatching(compareLogs[2], compareArgs.authorFilter)
            NotInTo(commit) == commit.message \notin MessagesOf(to)
            NotInFrom(commit) == commit.message \notin MessagesOf(from)
        IN  IF compareArgs.hideIdentical
            THEN /\ finalFromCommits = SelectSeq(from, NotInTo)
                 /\ finalToCommits = SelectSeq(to, NotInFrom)
                 /\ MessagesOf(finalFromCommits) \cap MessagesOf(finalToCommits) = {}
            ELSE /\ finalFromCommits = from
                 /\ finalToCommits = to

\* C14: with an author filter only commits whose author contains it, letter
\* case aside, are shown, all of them when hideIdentical is off; with
\* hideIdentical on, a matching commit is shown whenever no author-matching
\* commit of the other list carries its message (white space at the ends
\* aside), whatever the messages of the non-matching commits are.
C14_AuthorFilterFirst ==
    (cpc = "shown" /\ compareArgs.authorFilter # <<>>) =>
        LET from == AuthorMatching(compareLogs[1], compareArgs.authorFilter)
            to == AuthorMatching(compareLogs[2], compareArgs.authorFilter)
            Alone(commit, others) ==
                \A i \in DOMAIN others : Trim(others[i].message) # Trim(commit.message)
        IN  IF compareArgs.hideIdentical
            THEN /\ SetOf(finalFromCommits) \subseteq SetOf(from)
                 /\ SetOf(finalToCommits) \subseteq SetOf(to)
                 /\ \A c \in SetOf(from) : Alone(c, to) => c \in SetOf(finalFromCommits)
                 /\ \A c \in SetOf(to) : Alone(c, from) => c \in SetOf(finalToCommits)
            ELSE /\ finalFromCommits = from
                 /\ finalToCommits = to

C14_Witness ==
    /\ cpc = "shown"
    /\ compareArgs.authorFilter = <<"A", "L">>
    /\ compareArgs.hideIdentical
    /\ \E c \in SetOf(finalFromCommits), t \in SetOf(compareLogs[2]) :
          /\ c.author = AuthorAlice /\ t.author = AuthorBob
          /\ c.message = t.message

\* ------------------------------------------- comparison document: claims
LinesTagged(tag) == {i \in DOMAIN comparisonContent : comparisonContent[i].tag = tag}

CountShown(tag) == {comparisonContent[i].count : i \in LinesTagged(tag)}

\* C15: the three counts of the summary are the lengths of onlyInFrom,
\* onlyInTo and `different` of the result the content was generated from, and
\* the 'no differences' line is there exactly when the three lengths are zero.
C15_SummaryCounts ==
    comparisonContent # <<>> =>
        /\ Cardinality(LinesTagged("onlyInFromCount")) = 1
        /\ Cardinality(LinesTagged("onlyInToCount")) = 1
        /\ Cardinality(LinesTagged("differentCount")) = 1
        /\ CountShown("onlyInFromCount") = {Len(difference.onlyInFrom)}
        /\ CountShown("onlyInToCount") = {Len(difference.onlyInTo)}
        /\ CountShown("differentCount") = {Len(difference.different)}
        /\ (LinesTagged("noDifference") # {}) <=>
              (/\ Len(difference.onlyInFrom) = 0
               /\ Len(difference.onlyInTo) = 0
               /\ Len(difference.different) = 0)

C15_Witness ==
    /\ comparisonContent # <<>>
    /\ Len(difference.onlyInFrom) = 1
    /\ Len(difference.onlyInTo) = 0
    /\ Len(difference.different) = 1
    /\ LinesTagged("noDifference") = {}

\* --------------------------------------------- remembered names: claims
RECURSIVE LastCompareRequest(_)
LastCompareRequest(log) ==
    IF log = <<>> THEN Request("compareBranches", "", "")
    ELSE IF log[Len(log)].type = "compareBranches" THEN log[Len(log)]
         ELSE LastCompareRequest(SubSeq(log, 1, Len(log) - 1))

\* C16: whatever requests the panel of src/webviewProvider.ts has sent, the
\* remembered names are the from/to of the latest compareBranches request (empty
\* if there was none), failed or not, and a showCompareModal request posts them.
C16_RememberedNames ==
    provider = "webviewProvider.ts" =>
        /\ lastCompareFrom = LastCompareRequest(requests).from
        /\ lastCompareTo = LastCompareRequest(requests).to
        /\ (requests # <<>> /\ requests[Len(requests)].type = "showCompareModal") =>
              posted = <<Message("showCompareModal",
                                 <<LastCompareRequest(requests).from,
                                   LastCompareRequest(requests).to>>)>>

C16_Witness ==
    /\ Len(requests) = 3
    /\ requests[1].type = "compareBranches"
    /\ requests[2] = Request("compareBranches", "dev", "main")
    /\ requests[1].from # requests[2].from
    /\ cpc = "failed"
    /\ requests[3].type = "showCompareModal"
    /\ posted = <<Message("showCompareModal", <<"dev", "main">>)>>

\* ------------------------------------- history-rewriting handlers: claims
LatestRequest == requests[Len(requests)]

CallsNamed(names) == {i \in DOMAIN serviceCalls : serviceCalls[i].name \in names}

MessagesTyped(type) == {i \in DOMAIN posted : posted[i].type = type}

StatusReported(outcome) ==
    /\ serviceCalls # <<>>
    /\ serviceCalls[1] = ServiceCall("getWorkingDirectoryStatus", outcome)

\* C17: a performRebase or performCherryPick request asks for the working
\* directory status before anything else, and when the status has changes (the
\* warning is the trace of it) rebaseOnto, cherryPick and cherryPickMultiple are
\* not called and commits and current branch are as the request found them.
C17_DirtyTreeBlocksRewrite ==
    (requests # <<>> /\ LatestRequest.type \in {"performRebase", "performCherryPick"}) =>
        /\ serviceCalls # <<>>
        /\ serviceCalls[1].name = "getWorkingDirectoryStatus"
        /\ (\E i \in DOMAIN notified : notified[i].kind = "warning") =>
              /\ CallsNamed({"rebaseOnto", "cherryPick", "cherryPickMultiple"}) = {}
              /\ shownCommits = before.commits
              /\ currentBranch = before.currentBranch

C17_Witness ==
    /\ requests # <<>>
    /\ LatestRequest.type = "performCherryPick"
    /\ StatusReported("resolved")
    /\ notified = <<Warning("closed")>>
    /\ shownCommits # <<>>
    /\ currentBranch = "main"

\* C18: a stash, rebase, cherry-pick, create-branch, delete-branch or reset
\* request makes at most one call of a mutating GitService method, and when
\* that call rejects it is the last call of the request, an error is shown and
\* no 'update' is posted.
C18_NoRetryAfterFailure ==
    (requests # <<>> /\ LatestRequest.type \in MutatingRequests) =>
        /\ Cardinality(CallsNamed(MutatingCalls)) <= 1
        /\ \A i \in CallsNamed(MutatingCalls) :
              serviceCalls[i].outcome = "rejected" =>
                  /\ i = Len(serviceCalls)
                  /\ ErrorShown \in {notified[k] : k \in DOMAIN notified}
                  /\ MessagesTyped("update") = {}

C18_Witness ==
    /\ requests # <<>>
    /\ LatestRequest.type = "deleteBranches"
    /\ serviceCalls = <<ServiceCall("deleteBranches", "rejected")>>
    /\ notified = <<ErrorShown>>
    /\ branches = <<"main", "dev">>

\* C19: a resetToRemote request calls GitService.resetToRemote only when the
\* modal warning came back with the confirm choice, and after a dismissed
\* dialog there is no reset and commits, current branch, filters and selection
\* are as the request found them.
C19_ResetNeedsConfirmation ==
    (requests # <<>> /\ LatestRequest.type = "resetToRemote") =>
        /\ notified # <<>> /\ notified[1].kind = "warning"
        /\ CallsNamed({"resetToRemote"}) # {} => notified[1].answer = "confirm"
        /\ notified[1].answer = "dismissed" =>
              /\ serviceCalls = <<>>
              /\ Fields = before

C19_Witness ==
    /\ requests # <<>>
    /\ LatestRequest.type = "resetToRemote"
    /\ notified = <<Warning("dismissed")>>
    /\ shownCommits # <<>>
    /\ selectedCommits # {}

\* ------------------------------------------------- panel script: claims
DestructiveTypes == {"dropStash", "deleteBranches", "resetToRemote"}

DestructivePosts ==
    {i \in DOMAIN scriptLog : scriptLog[i].dir = "post" /\ scriptLog[i].type \in DestructiveTypes}

\* C20: every 'dropStash', 'deleteBranches' or 'resetToRemote' message the
\* panel script posted comes right after a received 'userInputResponse' whose
\* result is true and whose callback id is that of a confirm request posted
\* before it, and nothing is posted on a response with a false or null result.
C20_PostedOnlyAfterConfirmation ==
    /\ \A i \in DestructivePosts :
          /\ i > 1
          /\ scriptLog[i - 1].dir = "receive"
          /\ scriptLog[i - 1].type = "userInputResponse"
          /\ scriptLog[i - 1].result = "true"
          /\ \E j \in 1..(i - 2) :
                scriptLog[j] = ConfirmRequested(scriptLog[i - 1].callback)
    /\ \A i \in DOMAIN scriptLog :
          (scriptLog[i].dir = "receive" /\ scriptLog[i].result \in {"false", "null"}
             /\ i < Len(scriptLog)) =>
                scriptLog[i + 1].type \notin DestructiveTypes

C20_Witness ==
    /\ Len(scriptLog) = 5
    /\ scriptLog[1] = ConfirmRequested("0")
    /\ scriptLog[2] = ConfirmRequested("0")
    /\ scriptLog[3] = ResponseReceived("0", "true")
    /\ scriptLog[4].type = "dropStash"
    /\ scriptLog[5] = ResponseReceived("0", "false")

\* ------------------------------------------------------ renderApp: claims
Rendered(action) == \E i \in DOMAIN appActions : appActions[i] = action

ListedLocal(data) ==
    \E i \in DOMAIN data.branches :
        data.branches[i] = Branch(data.currentBranch, "local")

\* C21: the six advanced-function buttons are in the rendered panel only when
\* the branch list has a 'local' entry named like the current branch; with a
\* remote-only branch, a tag or an unlisted name none of them is rendered.
C21_AdvancedOnlyOnLocalBranch ==
    /\ \A k \in DOMAIN AdvancedActions :
          Rendered(AdvancedActions[k]) => ListedLocal(currentData)
    /\ ~ListedLocal(currentData) =>
          \A k \in DOMAIN AdvancedActions : ~Rendered(AdvancedActions[k])

C21_Witness ==
    /\ currentData.currentBranch = "dev"
    /\ currentData.branches = <<Branch("main", "local"), Branch("dev", "remote")>>
    /\ Rendered("showCompareModal")
    /\ ~Rendered("resetToRemote")

\* C22: a createBranch request asks branchExists before it creates, and when
\* the answer is true createBranch of the service is not called and current
\* branch, branch list and commits are as the request found them.
C22_ExistingNameNotCreated ==
    (requests # <<>> /\ LatestRequest.type = "createBranch") =>
        /\ serviceCalls # <<>> /\ serviceCalls[1].name = "branchExists"
        /\ serviceCalls[1] = ServiceCall("branchExists", "true") =>
              /\ CallsNamed({"createBranch"}) = {}
              /\ currentBranch = before.currentBranch
              /\ branches = before.branches
              /\ shownCommits = before.commits

C22_Witness ==
    /\ requests # <<>>
    /\ LatestRequest.type = "createBranch"
    /\ serviceCalls = <<ServiceCall("branchExists", "true")>>
    /\ notified = <<ErrorShown>>
    /\ branches = <<"main", "dev">>
    /\ shownCommits # <<>>

\* ------------------------------------------------- filterCommits: claims
\* the filter is a substring of the text, letter case aside; the empty filter
\* is a substring of every text
Within(text, filter) ==
    \E i \in 1..(Len(text) - Len(filter) + 1) :
        \A k \in 1..Len(filter) : LowerChar(text[i + k - 1]) = LowerChar(filter[k])

\* the raw commit passes the two filters of the call
Passes(raw) ==
    /\ filterCall.authorFilter # <<>> =>
          \/ Within(raw.author_name, filterCall.authorFilter)
          \/ Within(raw.author_email, filterCall.authorFilter)
    /\ filterCall.messageFilter # <<>> => Within(raw.message, filterCall.messageFilter)

\* C23: a resolved filterCommits call returns, in log order, exactly those of
\* the first maxCount commits of the ref whose author name or author email
\* contains the author filter and whose message contains the message filter,
\* letter case aside, an empty filter restricting nothing.
C23_FilterCommits ==
    filterCall.outcome = "resolved" =>
        LET first == Take(filterCall.log, filterCall.maxCount)
        IN  /\ HashSeq(filterCall.commits) = HashSeq(SelectSeq(first, Passes))
            /\ \A i \in DOMAIN filterCall.commits :
                  \E k \in DOMAIN first :
                      /\ first[k].hash = filterCall.commits[i].hash
                      /\ first[k].message = filterCall.commits[i].message
                      /\ first[k].author_name = filterCall.commits[i].author
                      /\ first[k].author_email = filterCall.commits[i].email

C23_Witness ==
    /\ filterCall.outcome = "resolved"
    /\ filterCall.authorFilter = <<"@", "X">>
    /\ filterCall.messageFilter = <<>>
    /\ filterCall.maxCount = 2
    /\ Len(filterCall.log) = 3
    /\ HashSeq(filterCall.log) = <<"h1", "h2", "h3">>
    /\ filterCall.log[3].author_email = <<"a", "@", "x">>
    /\ HashSeq(filterCall.commits) = <<"h2">>

\* C24: whenever no load is in flight, the commits the provider holds are the
\* list loaded for the branch named by currentBranch (or empty, after a load
\* that failed or without a branch): two switchBranch requests whose loads
\* overlap cannot leave currentBranch naming one branch and commits holding
\* the list of the other
C24_CommitsOfCurrentBranch ==
    loading = <<>> => shownCommits \in {<<>>, CommitsOf(currentBranch)}

\* C25: for a branch name, the commits listed with a filter active come from
\* the ref the unfiltered listing resolved to (the local name or origin/name),
\* so a filter every listed commit passes yields the hashes of the unfiltered
\* listing made with the same maxCount
C25_FilteredFromResolvedRef ==
    (/\ pc = "returned"
     /\ filterCall.outcome = "resolved"
     /\ filterCall.ref = branchOrTag)
    => /\ filterCall.ref = refToQuery
       /\ LET unfiltered == Take(RefLog(refToQuery), filterCall.maxCount)
          IN  (\A i \in DOMAIN unfiltered : Passes(unfiltered[i]))
                 => HashSeq(filterCall.commits) = HashSeq(listing)

\* C26: with hideIdentical off and no author filter, the two lists the panel's
\* compareBranches shows are onlyInFrom and onlyInTo of getBranchDifference
\* for the same two commit lists: a commit whose hash is on both sides is
\* shown on neither
C26_PanelShowsBranchDifference ==
    (/\ cpc = "shown"
     /\ ~compareArgs.hideIdentical
     /\ compareArgs.authorFilter = NoFilter)
    => /\ HashSeq(finalFromCommits) = HashSeq(OnlyInFrom(compareLogs[1], compareLogs[2]))
       /\ HashSeq(finalToCommits) = HashSeq(OnlyInTo(compareLogs[1], compareLogs[2]))

\* C27: in every outcome of the ref resolution the ref queried is the given
\* name or origin/ followed by the name, and usedRemote is true exactly when
\* it is the origin/ form
C27_FlagTellsTheRef ==
    ResolutionDone =>
        /\ refToQuery \in {branchOrTag, RemoteRef(branchOrTag)}
        /\ useRemote <=> (refToQuery = RemoteRef(branchOrTag))

C27_Witness ==
    /\ pc = "returned"
    /\ CountsSucceeded
    /\ ~PositiveCount(remoteAhead) /\ ~PositiveCount(localAhead)
    /\ refToQuery = RemoteRef(branchOrTag)
    /\ useRemote
    /\ calls[Len(calls)] = Call("log", RemoteRef(branchOrTag), TRUE)

LoadRequests ==
    {"initialize", "switchBranch", "filterAuthor", "filterMessage", "clearFilters",
     "exitCompareMode"}

\* the git call of the loadCommits of the latest request rejected
LoadFailed ==
    /\ requests # <<>>
    /\ LatestRequest.type \in LoadRequests
    /\ \E i \in CallsNamed({"getCommits", "filterCommits", "compareCommits"}) :
          serviceCalls[i].outcome = "rejected"

\* C28: when loading the commits fails the provider's commit list is empty
\* afterwards and an 'error' message is posted: the commits of the branch
\* loaded before are never kept under the newly selected branch name
C28_FailedLoadEmptiesCommits ==
    LoadFailed => /\ shownCommits = <<>>
                  /\ MessagesTyped("error") # {}

\* C29: isCompareMode is false in every reachable state, whatever requests
\* were served, compareBranches included, so no loadCommits calls
\* compareCommits
C29_NeverInCompareMode ==
    /\ ~isCompareMode
    /\ CallsNamed({"compareCommits"}) = {}

C29_Witness ==
    /\ Len(requests) = 3
    /\ requests[1].type = "compareBranches"
    /\ cpc = "shown"
    /\ requests[2].type = "switchBranch"
    /\ LatestRequest.type = "filterAuthor"
    /\ serviceCalls = <<ServiceCall("filterCommits", "resolved")>>
    /\ shownCommits # <<>>
    /\ ~isCompareMode

\* the positions a request can take in the log of the panel script
RequestPositions == 1..(3 * MaxClicks)

CalledFor(position) == {i \in DOMAIN invoked : invoked[i].owner = position}

\* C30: every confirm or input request issued through requestUserInput has
\* its own callback called, eventually and exactly once, with the result the
\* host produced for that same request, also with several requests
\* outstanding or issued within one clock millisecond
C30_OwnCallbackOnce ==
    /\ [](\A i \in DOMAIN invoked : invoked[i].request = invoked[i].owner)
    /\ [](\A position \in UserClicks : Cardinality(CalledFor(position)) <= 1)
    /\ \A position \in RequestPositions :
          [](position \in UserClicks => <>(CalledFor(position) # {}))

TypeOK ==
    /\ pc \in {"idle", "L244", "L248", "L251", "L252", "L257", "L258", "L259",
               "L300", "L310", "returned", "failed"}
    /\ useRemote \in BOOLEAN
    /\ dpc \in {"idle", "done", "again", "failed"}
    /\ fromCommits \in CommitLists /\ toCommits \in CommitLists
====
